---- MODULE Spec2Model ----
(***************************************************************************)
(* A model of the agent / tool-orchestration layer of aichat:              *)
(*   - the request and request_streaming loops of OpenAIAgent, ClaudeAgent *)
(*     and GeminiAgent (src/aichat/agents/*_agent.py),                     *)
(*   - the two McpHandler.call_tool implementations                        *)
(*     (src/aichat/agents/mcp_handler.py, agents/mcp_tools/mcp_handler.py).*)
(*                                                                         *)
(* Python strings are sequences of tokens (a token is a character or a     *)
(* literal piece of text); None and "" are both the empty sequence where   *)
(* the code only tests truthiness.                                         *)
(***************************************************************************)
EXTENDS Integers, Sequences, FiniteSets, TLC

VARIABLES
    agent,             \* which provider agent runs: "openai", "claude", "gemini"
    op,                \* "request" or "request_streaming"
    pc,                \* position of the invocation
    history,           \* the list[Message] passed in
    messages,          \* the provider-native message list
    final_text_parts,  \* request: text parts accumulated so far
    call_count,        \* request: the round counter (call_count / cnt)
    response,          \* request: the provider response being processed
    ret,               \* how the invocation ended (returned value or raised exception)
    yielded,           \* request_streaming: the fragments yielded so far
    events,            \* observation log: provider calls, responses, tool executions
    issued,            \* number of tool-call ids the provider has issued
    variety,           \* how much of the environment's variation budget is spent
    strm,              \* request_streaming: the open provider stream and the frame's locals
    mcp,               \* the tool registry (McpHandler) under call_tool
    ui,                \* the chat page: controls, database, pubsub, session agent
    fmt,               \* the cached tool list under the tool format adapters
    loc,               \* the agents without image support and LocalAgent's streamer
    conn,              \* the tool-server connections that are open
    controller,        \* AgentController: one agent turn and what it publishes and persists
    mlx,               \* MLXAgent.request_streaming: the generation rounds and tool calls
    db                 \* the SQLite tables under Message.insert_into_db

agentVars == <<agent, op, pc, history, messages, final_text_parts, call_count,
               response, ret, yielded, events, issued, variety, strm, conn>>
\* the controller, the MLX stream and the database
otherVars == <<controller, mlx, db>>
vars == <<agentVars, mcp, ui, fmt, loc, otherVars>>

----------------------------------------------------------------------------
(* Bounds of the model and program constants *)

MAX_REQUEST_COUNT == 5

\* at most this many provider streams are opened by one request_streaming
MaxStreams == 6

\* the provider and the tool server deviate from the plain round (one tool call
\* that succeeds, no text) at most this many times during one invocation; a
\* text part, a further tool call, a malformed or failing tool call, argument
\* text in the chunk that starts a streamed tool call, and a tool-use stop
\* without a tool call each count one
MaxVariety == 2

\* at most this many tool calls in one provider response
MaxToolCalls == 2

----------------------------------------------------------------------------
(* Python string helpers *)

Whitespace == {" ", "\n"}

RECURSIVE LStrip(_)
LStrip(s) ==
    IF s # <<>> /\ Head(s) \in Whitespace THEN LStrip(Tail(s)) ELSE s

RECURSIVE RStrip(_)
RStrip(s) ==
    IF s # <<>> /\ s[Len(s)] \in Whitespace
    THEN RStrip(SubSeq(s, 1, Len(s) - 1))
    ELSE s

\* str.strip()
Strip(s) == RStrip(LStrip(s))

\* sep.join(parts)
RECURSIVE Join(_, _)
Join(parts, sep) ==
    IF parts = <<>> THEN <<>>
    ELSE IF Len(parts) = 1 THEN parts[1]
    ELSE parts[1] \o <<sep>> \o Join(Tail(parts), sep)

\* substring test: token t occurs in s
Contains(s, t) == \E i \in 1..Len(s) : s[i] = t

\* the concatenation of the sequences of ss, in order
RECURSIVE Flatten(_)
Flatten(ss) == IF ss = <<>> THEN <<>> ELSE Head(ss) \o Flatten(Tail(ss))

----------------------------------------------------------------------------
(* json.loads on the JSON texts of the model.                              *)
(* Characters: "{" "}" "k" (a key with its colon) "1" "2" and " ".         *)
(* Documents: a number, {} or {k number}, with optional blanks between     *)
(* lexemes.                                                                *)

JsonChars == {"{", "}", "k", "1", "2", " "}
Digits == {"1", "2"}

DigitVal(c) == IF c = "1" THEN 1 ELSE 2

RECURSIVE NumVal(_)
NumVal(s) ==
    IF s = <<>> THEN 0
    ELSE 10 * NumVal(SubSeq(s, 1, Len(s) - 1)) + DigitVal(s[Len(s)])

AllDigits(s) == s # <<>> /\ \A i \in 1..Len(s) : s[i] \in Digits

\* a blank inside a run of digits splits the number: not a document
BlankInNumber(s) ==
    \E i, j \in 1..Len(s) :
        /\ i + 1 < j
        /\ s[i] \in Digits /\ s[j] \in Digits
        /\ \A m \in (i + 1)..(j - 1) : s[m] = " "

JsonLoads(s) ==
    LET t == SelectSeq(s, LAMBDA c : c # " ")
        bad == [ok |-> FALSE, t |-> "none", kv |-> <<>>]
    IN  IF BlankInNumber(s) THEN bad
        ELSE IF AllDigits(t) THEN [ok |-> TRUE, t |-> "num", kv |-> <<NumVal(t)>>]
        ELSE IF t = <<"{", "}">> THEN [ok |-> TRUE, t |-> "dict", kv |-> <<>>]
        ELSE IF /\ Len(t) >= 4
                /\ t[1] = "{" /\ t[2] = "k" /\ t[Len(t)] = "}"
                /\ AllDigits(SubSeq(t, 3, Len(t) - 1))
             THEN [ok |-> TRUE, t |-> "dict",
                   kv |-> <<NumVal(SubSeq(t, 3, Len(t) - 1))>>]
        ELSE bad

\* the value of a dict argument that never went through JSON text
EmptyDict == [ok |-> TRUE, t |-> "dict", kv |-> <<>>]

----------------------------------------------------------------------------
(* Messages of the application and the inputs of the model *)

AGENT_AVATAR_COLOR == "BLUE"
USER_AVATAR_COLOR == "GREEN"

Msg(role, color, ctype, text) ==
    [role |-> role, avatar_color |-> color, content_type |-> ctype,
     display_content |-> <<text>>, system_content |-> <<text>>]

UserText == Msg("User", USER_AVATAR_COLOR, "text", "q")
AgentText == Msg("Agent", AGENT_AVATAR_COLOR, "text", "old")
UserPng == Msg("User", USER_AVATAR_COLOR, "png", "img")
AgentToolCall == Msg("Agent", AGENT_AVATAR_COLOR, "tool_call", "calls")
UserToolResult == Msg("User", USER_AVATAR_COLOR, "tool_result", "res")

Histories ==
    { <<UserText>>,
      <<UserText, AgentText, UserText>>,
      <<UserText, AgentToolCall, UserToolResult, UserText>> }

IsAgentMessage(m) == m.avatar_color = AGENT_AVATAR_COLOR

----------------------------------------------------------------------------
(* Exceptions and results *)

Exc(type, msg) == [type |-> type, msg |-> msg]

ConnectionError == Exc("APIConnectionError", "Connection error.")
RateLimitError == Exc("RateLimitError", "Rate limit reached.")
StatusError == Exc("APIStatusError", "Internal server error.")
TransportErrors == {ConnectionError, RateLimitError, StatusError}
ToolError == Exc("Exception", "tool failed")
McpConnectError == Exc("Exception", "server unreachable")

NoRet == [kind |-> "none", value |-> <<>>, exc |-> Exc("", "")]
Returned(s) == [kind |-> "return", value |-> s, exc |-> Exc("", "")]
Raised(e) == [kind |-> "raise", value |-> <<>>, exc |-> e]

\* the result object of ClientSession.call_tool
ToolOutcomes == {"ok", "is_error", "raise"}

\* the contexts an AsyncExitStack still holds once its async with block has
\* been left, out of the ones entered: __aexit__ unwinds every one of them,
\* when the block returns and when it raises
AsyncExitStackExitOnReturn(entered, raised) == IF raised THEN entered ELSE 0
AsyncExitStackExit(entered, raised) == 0

\* a step of an operation whose body runs inside async with AsyncExitStack():
\* the step enters this many contexts through connect_to_mcp_server, and the
\* block is left when the operation finishes
ExitStackStep(entered) ==
    conn' = IF pc' = "done"
            THEN AsyncExitStackExit(conn + entered, ret'.kind = "raise")
            ELSE conn + entered
ToolResultContent(outcome) == IF outcome = "ok" THEN <<"result">> ELSE <<"tool error">>

ToolNames == {"get_alerts"}

\* no provider stream is open
StrmIdle == [open |-> FALSE]

\* a tool call as the provider asked for it: its id, whether it names a tool
\* and its argument text is JSON, and the value of its argument text
Req(id, valid, args) == [id |-> id, valid |-> valid, args |-> args]

\* observation log entries: a call of the provider with n messages, a response
\* of the provider with the tool calls it asks for, a call of the tool session
EvProvider(n) ==
    [e |-> "provider", n |-> n, id |-> 0, args |-> EmptyDict, outcome |-> "", calls |-> <<>>]
EvResponse(calls) ==
    [e |-> "response", n |-> 0, id |-> 0, args |-> EmptyDict, outcome |-> "", calls |-> calls]
\* a response of the provider (a chunk of a stream) that holds k text parts
EvResponseText(calls, k) == [EvResponse(calls) EXCEPT !.n = k]
EvTool(id, args, outcome) ==
    [e |-> "tool", n |-> 0, id |-> id, args |-> args, outcome |-> outcome, calls |-> <<>>]
\* a call of the tool session started while the native message list has n entries
EvToolAt(id, args, outcome, n) == [EvTool(id, args, outcome) EXCEPT !.n = n]
\* the calls of one loop that extends the native message list only after its
\* last iteration: each of them starts with the same n entries
StartedAt(evs, n) == [i \in 1..Len(evs) |-> [evs[i] EXCEPT !.n = n]]

----------------------------------------------------------------------------
(* OpenAIAgent: message conversion, request                                *)

OAMsg(role, content, tool_calls, tool_call_id) ==
    [role |-> role, content |-> content, tool_calls |-> tool_calls,
     tool_call_id |-> tool_call_id]

ToolCallRec(id, name, arguments) == [id |-> id, name |-> name, arguments |-> arguments]

\* the tool call stored in a TOOL_CALL message of the history
StoredToolCalls == <<ToolCallRec(0, "get_alerts", <<"{", "}">>)>>

OpenAIHandles(m) == m.content_type \in {"tool_result", "tool_call", "text", "png", "jpeg"}

OpenAIConstructRequest(m) ==
    IF m.content_type = "tool_result"
    THEN OAMsg("tool", m.system_content, <<>>, 0)
    ELSE IF m.content_type = "tool_call"
    THEN OAMsg("assistant", <<>>, StoredToolCalls, 0)
    ELSE IF m.content_type = "text"
    THEN OAMsg(IF IsAgentMessage(m) THEN "assistant" ELSE "user", m.system_content, <<>>, 0)
    ELSE OAMsg(IF IsAgentMessage(m) THEN "assistant" ELSE "user",
               m.display_content \o <<"data:image/", m.content_type, ";base64,">>
                   \o m.system_content,
               <<>>, 0)

\* JSON texts a provider may put in function.arguments
OpenAIArgTexts == { <<"{", "k", "1", "}">>, <<"{">> }

ProviderTexts == { <<>>, <<"a">> }

OpenAIFinishReasons == {"stop", "length", "tool_calls", "content_filter"}

\* is this tool call one that fails (invalid arguments, or the session fails)
OpenAICallFails(call, outcome) == ~JsonLoads(call.arguments).ok \/ outcome # "ok"

NumFails(calls, o, Fails(_, _)) ==
    Cardinality({i \in 1..Len(calls) : Fails(calls[i], o[i])})

B2N(b) == IF b THEN 1 ELSE 0

\* what a response and the outcomes of its tool calls take from the budget
OpenAICost(r, o) ==
    B2N(r.content # <<>>)
    + (IF Len(r.tool_calls) > 1 THEN Len(r.tool_calls) - 1 ELSE 0)
    + NumFails(r.tool_calls, o, OpenAICallFails)
    + B2N(r.tool_calls = <<>> /\ r.finish_reason = "tool_calls")

OpenAIResponses ==
    { [content |-> c, tool_calls |-> tc, finish_reason |-> f] :
        c \in ProviderTexts,
        tc \in UNION { [1..k -> { ToolCallRec(0, n, a) :
                                    n \in ToolNames, a \in OpenAIArgTexts }] :
                       k \in 0..MaxToolCalls },
        f \in OpenAIFinishReasons }

\* the provider numbers the tool calls of a response with fresh ids
WithFreshIds(calls, base) ==
    [i \in 1..Len(calls) |-> [calls[i] EXCEPT !.id = base + i]]

\* one pass of the loop over response_message.tool_calls
OpenAIToolResult(call, outcome) ==
    IF ~JsonLoads(call.arguments).ok
    THEN OAMsg("tool", <<"Error: Invalid JSON arguments received: ">> \o call.arguments,
               <<>>, call.id)
    ELSE IF outcome = "raise"
    THEN OAMsg("tool", <<"Error executing tool ", call.name, ": ", ToolError.msg>>,
               <<>>, call.id)
    ELSE OAMsg("tool", ToolResultContent(outcome), <<>>, call.id)

OpenAIToolResults(calls, o) == [i \in 1..Len(calls) |-> OpenAIToolResult(calls[i], o[i])]

\* session.call_tool is reached only for the calls whose arguments parse
OpenAIToolEvents(calls, o) ==
    LET ev(i) == IF JsonLoads(calls[i].arguments).ok
                 THEN <<EvTool(calls[i].id, JsonLoads(calls[i].arguments), o[i])>>
                 ELSE <<>>
    IN  Flatten([i \in 1..Len(calls) |-> ev(i)])

\* the tool calls of a response as the provider asked for them
OpenAIRequested(calls) ==
    [i \in 1..Len(calls) |->
        Req(calls[i].id, JsonLoads(calls[i].arguments).ok, JsonLoads(calls[i].arguments))]

OpenAIHadToolCalls(msgs) ==
    \E i \in 1..Len(msgs) : msgs[i].role = "assistant" /\ msgs[i].tool_calls # <<>>

\* the code after the with-block of request
OpenAIFinish(parts, msgs) ==
    LET content_text == Strip(Join(parts, "\n"))
    IN  IF content_text = <<>> /\ ~OpenAIHadToolCalls(msgs)
        THEN Returned(<<"No response generated.">>)
        ELSE IF content_text = <<>>
        THEN Returned(<<"[Tool use completed]">>)
        ELSE Returned(content_text)

OpenAIErrorReturn(e) == Returned(<<"An error occurred: ", e.msg>>)

OpenAIRequestStart ==
    /\ agent = "openai" /\ op = "request" /\ pc = "init"
    /\ \/ /\ \E i \in 1..Len(history) : ~OpenAIHandles(history[i])
          /\ ret' = Raised(Exc("ValueError", "Invalid content type"))
          /\ pc' = "done"
          /\ conn' = conn
          /\ UNCHANGED messages
       \/ /\ \A i \in 1..Len(history) : OpenAIHandles(history[i])
          /\ messages' = [i \in 1..Len(history) |-> OpenAIConstructRequest(history[i])]
          /\ \/ pc' = "loop" /\ ret' = ret /\ ExitStackStep(1)
             \/ pc' = "done" /\ ret' = OpenAIErrorReturn(McpConnectError) /\ ExitStackStep(0)
    /\ UNCHANGED <<agent, op, history, final_text_parts, call_count, response,
                   yielded, events, issued, variety, strm, mcp, ui, fmt, loc, otherVars>>

\* one iteration of the while loop of request; when the loop ends in this
\* iteration, the code after the loop runs too
OpenAIRequestRound ==
    /\ agent = "openai" /\ op = "request" /\ pc = "loop"
    /\ call_count < MAX_REQUEST_COUNT
    /\ \/ \E e \in TransportErrors :
            /\ ret' = OpenAIErrorReturn(e)
            /\ events' = Append(events, EvProvider(Len(messages)))
            /\ pc' = "done"
            /\ UNCHANGED <<messages, final_text_parts, call_count, response,
                           issued, variety>>
       \/ \E r0 \in OpenAIResponses :
            LET calls == WithFreshIds(r0.tool_calls, issued)
                r == [r0 EXCEPT !.tool_calls = calls]
                parts == IF r.content # <<>>
                         THEN Append(final_text_parts, r.content)
                         ELSE final_text_parts
                appended == Append(messages, OAMsg("assistant", r.content, calls, 0))
            IN  /\ response' = r
                /\ final_text_parts' = parts
                /\ issued' = issued + Len(calls)
                /\ IF calls # <<>>
                   THEN \E o \in [1..Len(calls) -> ToolOutcomes] :
                          /\ r.finish_reason = "tool_calls"
                          /\ variety + OpenAICost(r, o) <= MaxVariety
                          /\ variety' = variety + OpenAICost(r, o)
                          /\ messages' = appended \o OpenAIToolResults(calls, o)
                          /\ events' = events
                                \o <<EvProvider(Len(messages)),
                                      EvResponseText(OpenAIRequested(calls),
                                                     B2N(r.content # <<>>))>>
                                \o StartedAt(OpenAIToolEvents(calls, o), Len(appended))
                          /\ call_count' = call_count + 1
                          /\ IF call_count + 1 < MAX_REQUEST_COUNT
                             THEN pc' = "loop" /\ ret' = ret
                             ELSE pc' = "done" /\ ret' = OpenAIFinish(parts, messages')
                   ELSE /\ messages' = appended
                        /\ events' = events
                              \o <<EvProvider(Len(messages)),
                                    EvResponseText(<<>>, B2N(r.content # <<>>))>>
                        /\ variety + OpenAICost(r, <<>>) <= MaxVariety
                        /\ variety' = variety + OpenAICost(r, <<>>)
                        /\ IF r.finish_reason = "tool_calls"
                              /\ call_count + 1 < MAX_REQUEST_COUNT
                           THEN /\ call_count' = call_count + 1
                                /\ pc' = "loop" /\ ret' = ret
                           ELSE /\ call_count' = IF r.finish_reason = "tool_calls"
                                                 THEN call_count + 1 ELSE call_count
                                /\ pc' = "done"
                                /\ ret' = OpenAIFinish(parts, appended)
    /\ UNCHANGED <<agent, op, history, yielded, strm, mcp, ui, fmt, loc, otherVars>>
    /\ ExitStackStep(0)

----------------------------------------------------------------------------
(* ClaudeAgent: message conversion, _handle_tool_use, request              *)

Block(type, text, id, name, input) ==
    [type |-> type, text |-> text, id |-> id, name |-> name, input |-> input]

TextBlock(text) == Block("text", text, 0, "", EmptyDict)
ToolUseBlock(id, name, input) == Block("tool_use", <<>>, id, name, input)
ToolResultBlock(id, content) == Block("tool_result", content, id, "", EmptyDict)
ImageBlock(ctype, data) == Block("image", <<"image/", ctype>> \o data, 0, "", EmptyDict)

CLMsg(role, content) == [role |-> role, content |-> content]

ClaudeHandles(m) == m.content_type \in {"text", "png", "jpeg"}

ClaudeConstructRequest(m) ==
    CLMsg(IF IsAgentMessage(m) THEN "assistant" ELSE "user",
          IF m.content_type = "text"
          THEN <<TextBlock(m.system_content)>>
          ELSE <<TextBlock(m.display_content), ImageBlock(m.content_type, m.system_content)>>)

\* the dict a provider SDK hands over as the input of a tool call
DictArgs == JsonLoads(<<"{", "k", "1", "}">>)

ClaudeStopReasons == {"end_turn", "max_tokens", "stop_sequence", "tool_use", "pause_turn"}

ClaudeBlocks == {TextBlock(<<"a">>)} \cup {ToolUseBlock(0, n, DictArgs) : n \in ToolNames}

ClaudeResponses ==
    { [content |-> c, stop_reason |-> sr] :
        c \in UNION { [1..k -> ClaudeBlocks] : k \in 0..MaxToolCalls },
        sr \in ClaudeStopReasons }

ToolUses(content) == SelectSeq(content, LAMBDA b : b.type = "tool_use")
TextBlocks(content) == SelectSeq(content, LAMBDA b : b.type = "text")

\* the provider numbers the tool_use blocks of a response with fresh ids
RECURSIVE ClaudeFreshIds(_, _)
ClaudeFreshIds(content, base) ==
    IF content = <<>> THEN <<>>
    ELSE IF Head(content).type = "tool_use"
    THEN <<[Head(content) EXCEPT !.id = base + 1]>> \o ClaudeFreshIds(Tail(content), base + 1)
    ELSE <<Head(content)>> \o ClaudeFreshIds(Tail(content), base)

ClaudeResponseCost(r) ==
    Len(TextBlocks(r.content))
    + (IF Len(ToolUses(r.content)) > 1 THEN Len(ToolUses(r.content)) - 1 ELSE 0)
    + B2N(ToolUses(r.content) = <<>> /\ r.stop_reason = "tool_use")

\* a response the provider may send now, its tool calls numbered
ClaudeNextResponses ==
    { [r EXCEPT !.content = ClaudeFreshIds(r.content, issued)] :
        r \in { x \in ClaudeResponses :
                  /\ ToolUses(x.content) # <<>> => x.stop_reason = "tool_use"
                  /\ variety + ClaudeResponseCost(x) <= MaxVariety } }

\* the tool calls of a response as the provider asked for them
ClaudeRequested(content) ==
    [i \in 1..Len(ToolUses(content)) |->
        Req(ToolUses(content)[i].id, TRUE, ToolUses(content)[i].input)]

\* index of the first tool_use block of a response, 0 if there is none
FirstToolUse(content) ==
    IF \E i \in 1..Len(content) : content[i].type = "tool_use"
    THEN CHOOSE i \in 1..Len(content) :
            /\ content[i].type = "tool_use"
            /\ \A j \in 1..(i - 1) : content[j].type # "tool_use"
    ELSE 0

ClaudeErrorReturn(e) ==
    IF e.type = "APIConnectionError" THEN Returned(<<"API Connection Error: ", e.msg>>)
    ELSE IF e.type = "RateLimitError" THEN Returned(<<"Rate Limit Exceeded: ", e.msg>>)
    ELSE IF e.type = "APIStatusError" THEN Returned(<<"API Error ", "500", ": ", e.msg>>)
    ELSE Returned(<<"An error occurred: ", e.msg>>)

ClaudeHadContent(msgs) ==
    \E i \in 1..Len(msgs) : msgs[i].role = "assistant" /\ msgs[i].content # <<>>

\* the code after the with-block of request
ClaudeFinish(parts, msgs, resp) ==
    LET content_text == Strip(Join(parts, "\n"))
    IN  IF content_text = <<>> /\ ~ClaudeHadContent(msgs)
        THEN Returned(<<"No response generated (Stop: ", resp.stop_reason, ").">>)
        ELSE IF content_text = <<>>
        THEN Returned(<<"[Tool use completed]">>)
        ELSE Returned(content_text)

\* the messages _handle_tool_use leaves in claude_messages before it calls the
\* provider: the last message is the assistant turn that holds the tool_use
\* block, so only the tool result is appended
ClaudeHandleToolUseMessages(msgs, tool_use, outcome) ==
    LET last == msgs[Len(msgs)]
        withUse ==
            IF msgs # <<>> /\ last.role = "assistant"
            THEN IF \E i \in 1..Len(last.content) :
                        last.content[i].type = "tool_use" /\ last.content[i].id = tool_use.id
                 THEN msgs
                 ELSE [msgs EXCEPT ![Len(msgs)].content = Append(last.content, tool_use)]
            ELSE Append(msgs, CLMsg("assistant", <<tool_use>>))
    IN  Append(withUse,
               CLMsg("user", <<ToolResultBlock(tool_use.id, ToolResultContent(outcome))>>))

ClaudeRequestStart ==
    /\ agent = "claude" /\ op = "request" /\ pc = "init"
    /\ \/ /\ \E i \in 1..Len(history) : ~ClaudeHandles(history[i])
          /\ ret' = Raised(Exc("ValueError", "Invalid content type"))
          /\ pc' = "done"
          /\ conn' = conn
          /\ UNCHANGED <<messages, response, events, issued, variety>>
       \/ /\ \A i \in 1..Len(history) : ClaudeHandles(history[i])
          /\ messages' = [i \in 1..Len(history) |-> ClaudeConstructRequest(history[i])]
          /\ \/ /\ pc' = "done" /\ ret' = ClaudeErrorReturn(McpConnectError)
                /\ ExitStackStep(0)
                /\ UNCHANGED <<response, events, issued, variety>>
             \/ \E e \in TransportErrors :
                   /\ pc' = "done" /\ ret' = ClaudeErrorReturn(e)
                   /\ ExitStackStep(1)
                   /\ events' = Append(events, EvProvider(Len(history)))
                   /\ UNCHANGED <<response, issued, variety>>
             \/ \E r \in ClaudeNextResponses :
                   /\ pc' = "loop" /\ ret' = ret
                   /\ ExitStackStep(1)
                   /\ response' = r
                   /\ events' = events
                         \o <<EvProvider(Len(history)),
                               EvResponseText(ClaudeRequested(r.content),
                                              Len(TextBlocks(r.content)))>>
                   /\ issued' = issued + Len(ToolUses(r.content))
                   /\ variety' = variety + ClaudeResponseCost(r)
    /\ UNCHANGED <<agent, op, history, final_text_parts, call_count, yielded, strm, mcp, ui, fmt, loc, otherVars>>

\* one iteration of the while loop of request, _handle_tool_use included;
\* when the loop ends in this iteration, the code after the loop runs too
ClaudeRequestRound ==
    /\ agent = "claude" /\ op = "request" /\ pc = "loop"
    /\ call_count < MAX_REQUEST_COUNT
    /\ LET content == response.content
           u == FirstToolUse(content)
           seen == IF u = 0 THEN content ELSE SubSeq(content, 1, u)
           parts == final_text_parts
                    \o [i \in 1..Len(TextBlocks(seen)) |-> TextBlocks(seen)[i].text]
           appended == IF seen # <<>>
                       THEN Append(messages, CLMsg("assistant", seen))
                       ELSE messages
       IN  /\ final_text_parts' = parts
           /\ IF u = 0
              THEN \* the for loop ended without a tool_use block: every branch breaks
                   /\ messages' = appended
                   /\ pc' = "done"
                   /\ ret' = ClaudeFinish(parts, appended, response)
                   /\ UNCHANGED <<response, call_count, events, issued, variety>>
              ELSE \E outcome \in ToolOutcomes :
                   /\ variety + B2N(outcome # "ok") <= MaxVariety
                   /\ IF outcome = "raise"
                      THEN \* session.call_tool raises inside _handle_tool_use, or its
                           \* result has no attribute is_error
                           /\ messages' = appended
                           /\ events' = Append(events,
                                 EvTool(content[u].id, content[u].input, outcome))
                           /\ pc' = "done"
                           /\ ret' = ClaudeErrorReturn(ToolError)
                           /\ variety' = variety + 1
                           /\ UNCHANGED <<response, call_count, issued>>
                      ELSE LET sent == ClaudeHandleToolUseMessages(appended, content[u], outcome)
                               evs == events \o <<EvTool(content[u].id, content[u].input, outcome),
                                                  EvProvider(Len(sent))>>
                           IN  /\ messages' = sent
                               /\ \/ \E e \in TransportErrors :
                                        /\ events' = evs
                                        /\ pc' = "done"
                                        /\ ret' = ClaudeErrorReturn(e)
                                        /\ variety' = variety + B2N(outcome # "ok")
                                        /\ UNCHANGED <<response, call_count, issued>>
                                  \/ \E r \in ClaudeNextResponses :
                                        /\ variety + B2N(outcome # "ok") + ClaudeResponseCost(r)
                                              <= MaxVariety
                                        /\ variety' = variety + B2N(outcome # "ok")
                                                      + ClaudeResponseCost(r)
                                        /\ response' = r
                                        /\ events' = Append(evs,
                                              EvResponseText(ClaudeRequested(r.content),
                                                             Len(TextBlocks(r.content))))
                                        /\ issued' = issued + Len(ToolUses(r.content))
                                        /\ call_count' = call_count + 1
                                        /\ IF call_count + 1 >= MAX_REQUEST_COUNT
                                           THEN /\ pc' = "done"
                                                /\ ret' = ClaudeFinish(parts, sent, r)
                                           ELSE pc' = "loop" /\ ret' = ret
    /\ UNCHANGED <<agent, op, history, yielded, strm, mcp, ui, fmt, loc, otherVars>>
    /\ ExitStackStep(0)

----------------------------------------------------------------------------
(* agents/mcp_tools/mcp_handler.py: McpHandler.call_tool as a function of  *)
(* the configuration, the call and the behaviour of the tool server        *)

\* a name is a sequence of tokens; the separators "__" and "/" are tokens
HasToken(name, sep) == \E i \in 1..Len(name) : name[i] = sep

FirstToken(name, sep) == CHOOSE i \in 1..Len(name) :
    name[i] = sep /\ \A j \in 1..(i - 1) : name[j] # sep

\* name.split(sep, 1)
SplitFirst(name, sep) ==
    IF HasToken(name, sep)
    THEN <<SubSeq(name, 1, FirstToken(name, sep) - 1),
           SubSeq(name, FirstToken(name, sep) + 1, Len(name))>>
    ELSE <<name>>

\* what a tool server does with one connection and one call
ServerBehaviours == {"ok", "is_error", "raise", "unreachable", "empty"}

CallReturn(content, has_flag, is_error, opened, invoked) ==
    [raised |-> FALSE, exc |-> Exc("", ""), content |-> content,
     has_is_error |-> has_flag, is_error |-> is_error,
     opened |-> opened, invoked |-> invoked]
CallRaise(e, opened, invoked) ==
    [raised |-> TRUE, exc |-> e, content |-> <<>>,
     has_is_error |-> FALSE, is_error |-> FALSE,
     opened |-> opened, invoked |-> invoked]

\* connect_with_server_name and call_tool; opened: a connection to the server
\* was attempted, invoked: the session's call_tool was reached
McpToolsCallTool(config, name, args, beh) ==
    LET parts == SplitFirst(name, "__")
    IN  IF Len(parts) # 2
        THEN CallRaise(Exc("ValueError", "not enough values to unpack"), FALSE, FALSE)
        ELSE IF parts[1] \notin DOMAIN config
        THEN CallRaise(Exc("KeyError", "server"), FALSE, FALSE)
        ELSE IF config[parts[1]].kind \notin {"command", "url"}
        THEN CallRaise(Exc("ValueError", "Invalid MCP server config"), FALSE, FALSE)
        ELSE IF beh = "unreachable"
        THEN CallRaise(McpConnectError, TRUE, FALSE)
        ELSE IF beh = "raise"
        THEN CallRaise(ToolError, TRUE, TRUE)
        ELSE IF beh = "empty"
        THEN CallRaise(Exc("IndexError", "list index out of range"), TRUE, TRUE)
        ELSE CallReturn(ToolResultContent(beh), FALSE, FALSE, TRUE, TRUE)

ServerConfig(kind, disabled) == [kind |-> kind, disabled |-> disabled]

----------------------------------------------------------------------------
(* GeminiAgent: message conversion, request                                *)

GMMsg(role, parts) == [role |-> role, parts |-> parts]

FunctionCallPart(id, name, args) == Block("function_call", <<>>, id, name, args)
FunctionResponsePart(id, name, content) == Block("function_response", content, id, name, EmptyDict)

GeminiHandles(m) == m.content_type \in {"text", "png", "jpeg"}

GeminiConstructRequest(m) ==
    GMMsg(IF IsAgentMessage(m) THEN "model" ELSE "user",
          IF m.content_type = "text"
          THEN <<TextBlock(m.system_content)>>
          ELSE <<TextBlock(m.display_content), ImageBlock(m.content_type, m.system_content)>>)

\* the registry the Gemini agent is wired to, and the names it advertises
GeminiConfig == (<<"weather">> :> ServerConfig("command", FALSE))
GeminiToolNames == { <<"weather", "__", "get_alerts">> }

GeminiParts ==
    {TextBlock(<<"a">>)} \cup {FunctionCallPart(0, n, DictArgs) : n \in GeminiToolNames}

\* the parts of the candidate of one response
GeminiResponses == UNION { [1..k -> GeminiParts] : k \in 0..MaxToolCalls }

FunctionCalls(parts) == SelectSeq(parts, LAMBDA b : b.type = "function_call")

\* the tool calls of a response as the provider asked for them
GeminiRequested(parts) ==
    [i \in 1..Len(FunctionCalls(parts)) |->
        Req(FunctionCalls(parts)[i].id, TRUE, FunctionCalls(parts)[i].input)]

RECURSIVE GeminiFreshIds(_, _)
GeminiFreshIds(parts, base) ==
    IF parts = <<>> THEN <<>>
    ELSE IF Head(parts).type = "function_call"
    THEN <<[Head(parts) EXCEPT !.id = base + 1]>> \o GeminiFreshIds(Tail(parts), base + 1)
    ELSE <<Head(parts)>> \o GeminiFreshIds(Tail(parts), base)

GeminiCost(parts, b) ==
    Len(TextBlocks(parts))
    + (IF Len(FunctionCalls(parts)) > 1 THEN Len(FunctionCalls(parts)) - 1 ELSE 0)
    + Cardinality({i \in 1..Len(parts) : parts[i].type = "function_call" /\ b[i] # "ok"})

\* the text property of a response: the text of its text parts, concatenated
GeminiChunkText(parts) ==
    Flatten([i \in 1..Len(TextBlocks(parts)) |-> TextBlocks(parts)[i].text])

\* the loop over candidate.content.parts from part i on; it stops where
\* mcp_handler.call_tool raises. request collects part.text in final_content,
\* request_streaming yields content.text
RECURSIVE GeminiProcessParts(_, _, _, _)
GeminiProcessParts(parts, b, i, acc) ==
    IF i > Len(parts) THEN acc
    ELSE IF parts[i].type = "function_call"
    THEN LET result == McpToolsCallTool(GeminiConfig, parts[i].name, parts[i].input, b[i])
             evs == IF result.invoked
                    THEN Append(acc.evs, EvToolAt(parts[i].id, parts[i].input, b[i],
                                                  Len(acc.msgs)))
                    ELSE acc.evs
             \* the connection of this call, entered once session.call_tool is
             \* reached, and what is left of it behind the async with block
             open == acc.open
                     + AsyncExitStackExit(IF result.invoked THEN 1 ELSE 0, result.raised)
         IN  IF result.raised
             THEN [acc EXCEPT !.evs = evs, !.raised = TRUE, !.exc = result.exc,
                              !.open = open]
             ELSE GeminiProcessParts(parts, b, i + 1,
                    [acc EXCEPT
                       !.evs = evs,
                       !.open = open,
                       !.is_final = FALSE,
                       !.msgs = acc.msgs \o
                          << GMMsg("model", <<parts[i]>>),
                             GMMsg("user", <<FunctionResponsePart(parts[i].id, parts[i].name,
                                                                  result.content)>>) >>])
    ELSE GeminiProcessParts(parts, b, i + 1,
            [acc EXCEPT !.texts = Append(acc.texts, IF acc.streaming
                                                    THEN GeminiChunkText(parts)
                                                    ELSE parts[i].text)])

GeminiRequestStart ==
    /\ agent = "gemini" /\ op = "request" /\ pc = "init"
    /\ \/ /\ \E i \in 1..Len(history) : ~GeminiHandles(history[i])
          /\ ret' = Raised(Exc("ValueError", "Invalid content type"))
          /\ pc' = "done"
          /\ UNCHANGED messages
       \/ /\ \A i \in 1..Len(history) : GeminiHandles(history[i])
          /\ messages' = [i \in 1..Len(history) |-> GeminiConstructRequest(history[i])]
          /\ pc' = "loop" /\ ret' = ret
    /\ UNCHANGED <<agent, op, history, final_text_parts, call_count, response,
                   yielded, events, issued, variety, strm, mcp, ui, fmt, loc, otherVars>>
    /\ conn' = conn

\* one iteration of the while loop of request; when the loop ends in this
\* iteration, the return statement runs too
GeminiRequestRound ==
    /\ agent = "gemini" /\ op = "request" /\ pc = "loop"
    /\ call_count < MAX_REQUEST_COUNT
    /\ \/ \E e \in TransportErrors :
            /\ ret' = Raised(e)
            /\ events' = Append(events, EvProvider(Len(messages)))
            /\ pc' = "done"
            /\ UNCHANGED <<messages, final_text_parts, call_count, response,
                           issued, variety, conn>>
       \/ \E r0 \in GeminiResponses :
          \E b \in [1..Len(r0) -> ServerBehaviours] :
            LET parts == GeminiFreshIds(r0, issued)
                acc == GeminiProcessParts(parts, b, 1,
                          [msgs |-> messages, texts |-> final_text_parts,
                           evs |-> events \o <<EvProvider(Len(messages)),
                                               EvResponseText(GeminiRequested(parts),
                                                              Len(TextBlocks(parts)))>>,
                           is_final |-> TRUE, streaming |-> FALSE,
                           raised |-> FALSE, exc |-> Exc("", ""), open |-> conn])
            IN  /\ \A i \in 1..Len(parts) : parts[i].type = "text" => b[i] = "ok"
                /\ conn' = acc.open
                /\ variety + GeminiCost(parts, b) <= MaxVariety
                /\ variety' = variety + GeminiCost(parts, b)
                /\ response' = [parts |-> parts]
                /\ issued' = issued + Len(FunctionCalls(parts))
                /\ messages' = acc.msgs
                /\ final_text_parts' = acc.texts
                /\ events' = acc.evs
                /\ IF acc.raised
                   THEN pc' = "done" /\ ret' = Raised(acc.exc) /\ call_count' = call_count
                   ELSE IF acc.is_final
                   THEN /\ pc' = "done" /\ call_count' = call_count
                        /\ ret' = Returned(Join(acc.texts, " "))
                   ELSE /\ call_count' = call_count + 1
                        /\ IF call_count + 1 < MAX_REQUEST_COUNT
                           THEN pc' = "loop" /\ ret' = ret
                           ELSE pc' = "done" /\ ret' = Returned(Join(acc.texts, " "))
    /\ UNCHANGED <<agent, op, history, yielded, strm, mcp, ui, fmt, loc, otherVars>>

----------------------------------------------------------------------------
(* OpenAIAgent: request_streaming and _continue_stream                     *)
(*                                                                         *)
(* When a stream is opened the provider fixes what it will send: an        *)
(* optional content delta, the tool calls with their argument text, and    *)
(* the finish reason. The argument text of a tool call arrives in          *)
(* fragments cut at arbitrary places; the chunk that starts a tool call    *)
(* carries its id and name and the first fragment (possibly empty).        *)

StreamCall(id, name, has_function, arguments) ==
    [id |-> id, name |-> name, has_function |-> has_function, arguments |-> arguments]

OpenAIStreamCalls ==
    { StreamCall(0, n, TRUE, a) : n \in ToolNames, a \in OpenAIArgTexts }
    \cup { StreamCall(0, "", TRUE, <<"{", "k", "1", "}">>),
           StreamCall(0, "", FALSE, <<>>) }

OpenAIStreamPlans ==
    { [content |-> c, calls |-> tc, finish_reason |-> f] :
        c \in ProviderTexts,
        tc \in UNION { [1..k -> OpenAIStreamCalls] : k \in 0..MaxToolCalls },
        f \in OpenAIFinishReasons }

StreamCallOdd(c) == ~c.has_function \/ c.name = "" \/ ~JsonLoads(c.arguments).ok

OpenAIPlanCost(p) ==
    B2N(p.content # <<>>)
    + (IF Len(p.calls) > 1 THEN Len(p.calls) - 1 ELSE 0)
    + Cardinality({i \in 1..Len(p.calls) : StreamCallOdd(p.calls[i])})
    + B2N(p.calls = <<>> /\ p.finish_reason = "tool_calls")

\* where the provider stands after tool call j is complete
OpenAIAfterCall(p, j) ==
    IF j < Len(p.calls)
    THEN [stage |-> "calls", j |-> j + 1, started |-> FALSE, rest |-> p.calls[j + 1].arguments]
    ELSE [stage |-> "finish", j |-> 0, started |-> FALSE, rest |-> <<>>]

OpenAIAfterContent(p) == OpenAIAfterCall(p, 0)

\* entry i of current_tool_calls with the text of current_tool_args_str
OpenAIAccumulated(st, i) ==
    ToolCallRec(st.current_tool_calls[i].id, st.current_tool_calls[i].name,
                st.current_tool_args_str[i])

\* the tool_calls of the assistant message built when the stream finishes
OpenAIStreamAssistantCalls(st) ==
    Flatten([i \in 1..Len(st.current_tool_calls) |->
                IF st.current_tool_calls[i].has_function
                THEN <<OpenAIAccumulated(st, i)>> ELSE <<>>])

OpenAIStreamRuns(st, i) ==
    st.current_tool_calls[i].has_function /\ st.current_tool_calls[i].name # ""

\* the tool results gathered for the next call: malformed tool calls are skipped
OpenAIStreamResults(st, o) ==
    Flatten([i \in 1..Len(st.current_tool_calls) |->
                IF OpenAIStreamRuns(st, i)
                THEN <<OpenAIToolResult(OpenAIAccumulated(st, i), o[i])>> ELSE <<>>])

OpenAIStreamToolEvents(st, o) ==
    Flatten([i \in 1..Len(st.current_tool_calls) |->
                IF OpenAIStreamRuns(st, i) /\ JsonLoads(st.current_tool_args_str[i]).ok
                THEN <<EvTool(st.current_tool_calls[i].id,
                              JsonLoads(st.current_tool_args_str[i]), o[i])>>
                ELSE <<>>])

\* the tool calls of a stream as the provider asked for them
OpenAIStreamRequested(calls) ==
    [i \in 1..Len(calls) |->
        Req(calls[i].id,
            calls[i].has_function /\ calls[i].name # "" /\ JsonLoads(calls[i].arguments).ok,
            JsonLoads(calls[i].arguments))]

\* failing tool executions among those that reach session.call_tool
OpenAIStreamFaults(st, o) ==
    Cardinality({i \in 1..Len(st.current_tool_calls) :
                    /\ OpenAIStreamRuns(st, i)
                    /\ JsonLoads(st.current_tool_args_str[i]).ok
                    /\ o[i] # "ok"})

StreamsOpened == Cardinality({i \in 1..Len(events) : events[i].e = "provider"})

OpenAIStreamingStart ==
    /\ agent = "openai" /\ op = "request_streaming" /\ pc = "init"
    /\ \/ /\ \E i \in 1..Len(history) : ~OpenAIHandles(history[i])
          /\ ret' = Raised(Exc("ValueError", "Invalid content type"))
          /\ pc' = "done"
          /\ conn' = conn
          /\ UNCHANGED <<messages, yielded>>
       \/ /\ \A i \in 1..Len(history) : OpenAIHandles(history[i])
          /\ messages' = [i \in 1..Len(history) |-> OpenAIConstructRequest(history[i])]
          /\ \/ pc' = "open" /\ ExitStackStep(1) /\ UNCHANGED <<ret, yielded>>
             \/ /\ pc' = "done" /\ ret' = Returned(<<>>)
                /\ ExitStackStep(0)
                /\ yielded' = Append(yielded,
                      <<"\nAn error occurred setting up the stream: ", McpConnectError.msg>>)
    /\ UNCHANGED <<agent, op, history, final_text_parts, call_count, response,
                   events, issued, variety, strm, mcp, ui, fmt, loc, otherVars>>

\* _continue_stream up to the first chunk: client.chat.completions.create
OpenAIStreamOpen ==
    /\ agent = "openai" /\ op = "request_streaming" /\ pc = "open"
    /\ StreamsOpened < MaxStreams
    /\ events' = Append(events, EvProvider(Len(messages)))
    /\ \/ \E e \in TransportErrors :
            /\ yielded' = Append(yielded, <<"\nAn error occurred during streaming: ", e.msg>>)
            /\ pc' = "done" /\ ret' = Returned(<<>>)
            /\ UNCHANGED <<strm, issued, variety>>
       \/ \E p0 \in OpenAIStreamPlans :
            LET p == [p0 EXCEPT !.calls = WithFreshIds(p0.calls, issued)]
                at == IF p.content # <<>>
                      THEN [stage |-> "content", j |-> 0, started |-> FALSE, rest |-> <<>>]
                      ELSE OpenAIAfterContent(p)
            IN  /\ p.calls # <<>> => p.finish_reason = "tool_calls"
                /\ variety + OpenAIPlanCost(p) <= MaxVariety
                /\ variety' = variety + OpenAIPlanCost(p)
                /\ issued' = issued + Len(p.calls)
                /\ strm' = [open |-> TRUE, plan |-> p, stage |-> at.stage, j |-> at.j,
                            started |-> at.started, rest |-> at.rest,
                            current_tool_calls |-> <<>>, current_tool_args_str |-> <<>>]
                /\ pc' = "stream"
                /\ UNCHANGED <<ret, yielded>>
    /\ UNCHANGED <<agent, op, history, messages, final_text_parts, call_count, response, mcp, ui, fmt, loc, otherVars>>
    /\ ExitStackStep(0)

\* one chunk that carries delta.content
OpenAIStreamContent ==
    /\ agent = "openai" /\ op = "request_streaming" /\ pc = "stream"
    /\ strm.stage = "content"
    /\ yielded' = Append(yielded, strm.plan.content)
    /\ LET at == OpenAIAfterContent(strm.plan)
       IN  strm' = [strm EXCEPT !.stage = at.stage, !.j = at.j,
                                !.started = at.started, !.rest = at.rest]
    /\ UNCHANGED <<agent, op, pc, history, messages, final_text_parts, call_count,
                   response, ret, events, issued, variety, mcp, ui, fmt, loc, otherVars>>
    /\ ExitStackStep(0)

\* what the chunk that starts tool call index does to the frame: the chunk is
\* stored and the argument text starts empty
OpenAIStartToolCall(st, call, piece) ==
    [st EXCEPT !.current_tool_calls = Append(st.current_tool_calls, call),
               !.current_tool_args_str = Append(st.current_tool_args_str, <<>>)]

\* a later chunk of tool call index: its fragment is appended
OpenAIAppendArguments(st, index, piece) ==
    [st EXCEPT !.current_tool_args_str[index] = st.current_tool_args_str[index] \o piece]

\* one chunk that carries a delta.tool_calls entry
OpenAIStreamToolDelta ==
    /\ agent = "openai" /\ op = "request_streaming" /\ pc = "stream"
    /\ strm.stage = "calls"
    /\ \E n \in (IF strm.started THEN 1 ELSE 0)..Len(strm.rest) :
          LET piece == SubSeq(strm.rest, 1, n)
              rest == SubSeq(strm.rest, n + 1, Len(strm.rest))
              call == strm.plan.calls[strm.j]
              st == IF strm.started
                    THEN OpenAIAppendArguments(strm, strm.j, piece)
                    ELSE OpenAIStartToolCall(strm, call, piece)
              at == IF rest = <<>>
                    THEN OpenAIAfterCall(strm.plan, strm.j)
                    ELSE [stage |-> "calls", j |-> strm.j, started |-> TRUE, rest |-> rest]
              \* argument text in the chunk that starts a tool call is a variation
              cost == B2N(~strm.started /\ piece # <<>>)
          IN  /\ variety + cost <= MaxVariety
              /\ variety' = variety + cost
              /\ strm' = [st EXCEPT !.stage = at.stage, !.j = at.j,
                                    !.started = at.started, !.rest = at.rest]
    /\ UNCHANGED <<agent, op, pc, history, messages, final_text_parts, call_count,
                   response, ret, yielded, events, issued, mcp, ui, fmt, loc, otherVars>>
    /\ ExitStackStep(0)

\* the chunk that carries finish_reason, with everything the frame does on it
OpenAIStreamFinish ==
    /\ agent = "openai" /\ op = "request_streaming" /\ pc = "stream"
    /\ strm.stage = "finish"
    /\ LET f == strm.plan.finish_reason
           calls == OpenAIStreamAssistantCalls(strm)
       IN  IF f = "tool_calls" /\ calls # <<>>
           THEN \E o \in [1..Len(strm.current_tool_calls) -> ToolOutcomes] :
                  LET results == OpenAIStreamResults(strm, o)
                  IN  /\ \A i \in 1..Len(o) :
                            o[i] # "ok" =>
                               OpenAIStreamRuns(strm, i) /\ JsonLoads(strm.current_tool_args_str[i]).ok
                      /\ variety + OpenAIStreamFaults(strm, o) <= MaxVariety
                      /\ variety' = variety + OpenAIStreamFaults(strm, o)
                      /\ messages' = Append(messages, OAMsg("assistant", <<>>, calls, 0))
                                     \o results
                      /\ events' = Append(events,
                                          EvResponse(OpenAIStreamRequested(strm.plan.calls)))
                                   \o StartedAt(OpenAIStreamToolEvents(strm, o),
                                                Len(messages) + 1)
                      /\ IF results # <<>>
                         THEN pc' = "open" /\ ret' = ret
                         ELSE pc' = "done" /\ ret' = Returned(<<>>)
                      /\ yielded' = yielded
           ELSE /\ events' = Append(events,
                                   EvResponse(OpenAIStreamRequested(strm.plan.calls)))
                /\ yielded' =
                      IF f = "tool_calls"
                      THEN Append(yielded, <<"\n[Error: Tool call processing failed]">>)
                      ELSE IF f = "length"
                      THEN Append(yielded, <<"\n[Warning: Response truncated due to length limit]">>)
                      ELSE yielded
                /\ pc' = "done" /\ ret' = Returned(<<>>)
                /\ UNCHANGED <<messages, variety>>
    /\ strm' = StrmIdle
    /\ UNCHANGED <<agent, op, history, final_text_parts, call_count, response, issued, mcp, ui, fmt, loc, otherVars>>
    /\ ExitStackStep(0)

\* the stream raises while it is iterated
OpenAIStreamError ==
    /\ agent = "openai" /\ op = "request_streaming" /\ pc = "stream"
    /\ \E e \in TransportErrors :
          yielded' = Append(yielded, <<"\nAn error occurred during streaming: ", e.msg>>)
    /\ pc' = "done" /\ ret' = Returned(<<>>)
    /\ strm' = StrmIdle
    /\ UNCHANGED <<agent, op, history, messages, final_text_parts, call_count,
                   response, events, issued, variety, mcp, ui, fmt, loc, otherVars>>
    /\ ExitStackStep(0)

----------------------------------------------------------------------------
(* ClaudeAgent: request_streaming and _continue_stream                     *)
(*                                                                         *)
(* The provider fixes the content blocks and the stop reason when the      *)
(* stream is opened. A tool_use block of the plan holds the JSON text of   *)
(* its input in the field text; it arrives as input_json_delta events cut  *)
(* at arbitrary places between content_block_start and content_block_stop. *)

ClaudeStreamBlocks ==
    {TextBlock(<<"a">>)}
    \cup { Block("tool_use", a, 0, n, EmptyDict) : n \in ToolNames, a \in OpenAIArgTexts }

ClaudeStreamPlans ==
    { [content |-> c, stop_reason |-> sr] :
        c \in UNION { [1..k -> ClaudeStreamBlocks] : k \in 0..MaxToolCalls },
        sr \in ClaudeStopReasons }

\* the tool calls of a stream as the provider asked for them
ClaudeStreamRequested(content) ==
    [i \in 1..Len(ToolUses(content)) |->
        Req(ToolUses(content)[i].id, JsonLoads(ToolUses(content)[i].text).ok,
            JsonLoads(ToolUses(content)[i].text))]

ClaudePlanCost(p) ==
    ClaudeResponseCost(p)
    + Cardinality({i \in 1..Len(p.content) :
                      p.content[i].type = "tool_use" /\ ~JsonLoads(p.content[i].text).ok})

ClaudeStreamingStart ==
    /\ agent = "claude" /\ op = "request_streaming" /\ pc = "init"
    /\ \/ /\ \E i \in 1..Len(history) : ~ClaudeHandles(history[i])
          /\ ret' = Raised(Exc("ValueError", "Invalid content type"))
          /\ pc' = "done"
          /\ conn' = conn
          /\ UNCHANGED <<messages, yielded>>
       \/ /\ \A i \in 1..Len(history) : ClaudeHandles(history[i])
          /\ messages' = [i \in 1..Len(history) |-> ClaudeConstructRequest(history[i])]
          /\ \/ pc' = "open" /\ ExitStackStep(1) /\ UNCHANGED <<ret, yielded>>
             \/ /\ pc' = "done" /\ ret' = Returned(<<>>)
                /\ ExitStackStep(0)
                /\ yielded' = Append(yielded,
                      <<"\nAn error occurred during streaming: ", McpConnectError.msg>>)
    /\ UNCHANGED <<agent, op, history, final_text_parts, call_count, response,
                   events, issued, variety, strm, mcp, ui, fmt, loc, otherVars>>

ClaudeStreamErrorFragment(e) ==
    <<"\nAn error occurred during continued streaming: ", e.msg>>

\* _continue_stream up to the first event: client.messages.stream
ClaudeStreamOpen ==
    /\ agent = "claude" /\ op = "request_streaming" /\ pc = "open"
    /\ StreamsOpened < MaxStreams
    /\ events' = Append(events, EvProvider(Len(messages)))
    /\ \/ \E e \in TransportErrors :
            /\ yielded' = Append(yielded, ClaudeStreamErrorFragment(e))
            /\ pc' = "done" /\ ret' = Returned(<<>>)
            /\ UNCHANGED <<strm, issued, variety>>
       \/ \E p0 \in ClaudeStreamPlans :
            LET p == [p0 EXCEPT !.content = ClaudeFreshIds(p0.content, issued)]
            IN  /\ ToolUses(p.content) # <<>> => p.stop_reason = "tool_use"
                /\ variety + ClaudePlanCost(p) <= MaxVariety
                /\ variety' = variety + ClaudePlanCost(p)
                /\ issued' = issued + Len(ToolUses(p.content))
                /\ strm' = [open |-> TRUE, plan |-> p,
                            stage |-> IF p.content = <<>> THEN "end" ELSE "start",
                            j |-> IF p.content = <<>> THEN 0 ELSE 1,
                            rest |-> <<>>,
                            current_tool_use_id |-> 0,
                            current_tool_name |-> "",
                            current_tool_input_chunks |-> <<>>,
                            assistant_message_content |-> <<>>]
                /\ pc' = "stream"
                /\ UNCHANGED <<ret, yielded>>
    /\ UNCHANGED <<agent, op, history, messages, final_text_parts, call_count, response, mcp, ui, fmt, loc, otherVars>>
    /\ ExitStackStep(0)

\* a content_block_start event
ClaudeStreamBlockStart ==
    /\ agent = "claude" /\ op = "request_streaming" /\ pc = "stream"
    /\ strm.stage = "start"
    /\ LET b == strm.plan.content[strm.j]
       IN  strm' =
             IF b.type = "tool_use"
             THEN [strm EXCEPT
                     !.current_tool_use_id = b.id,
                     !.current_tool_name = b.name,
                     !.current_tool_input_chunks = <<>>,
                     !.assistant_message_content =
                         Append(strm.assistant_message_content,
                                ToolUseBlock(b.id, b.name, EmptyDict)),
                     !.rest = b.text,
                     !.stage = IF b.text = <<>> THEN "stop" ELSE "delta"]
             ELSE [strm EXCEPT
                     !.assistant_message_content =
                         Append(strm.assistant_message_content, TextBlock(<<>>)),
                     !.rest = b.text,
                     !.stage = IF b.text = <<>> THEN "stop" ELSE "delta"]
    /\ UNCHANGED <<agent, op, pc, history, messages, final_text_parts, call_count,
                   response, ret, yielded, events, issued, variety, mcp, ui, fmt, loc, otherVars>>
    /\ ExitStackStep(0)

\* a content_block_delta event: text_delta or input_json_delta
ClaudeStreamDelta ==
    /\ agent = "claude" /\ op = "request_streaming" /\ pc = "stream"
    /\ strm.stage = "delta"
    /\ LET b == strm.plan.content[strm.j]
           amc == strm.assistant_message_content
       IN  \E n \in 1..Len(strm.rest) :
             LET piece == SubSeq(strm.rest, 1, n)
                 rest == SubSeq(strm.rest, n + 1, Len(strm.rest))
                 stage == IF rest = <<>> THEN "stop" ELSE "delta"
             IN  IF b.type = "text"
                 THEN /\ yielded' = Append(yielded, piece)
                      /\ strm' = [strm EXCEPT
                            !.assistant_message_content =
                                IF amc # <<>> /\ amc[Len(amc)].type = "text"
                                THEN [amc EXCEPT ![Len(amc)].text = amc[Len(amc)].text \o piece]
                                ELSE amc,
                            !.rest = rest, !.stage = stage]
                 ELSE /\ yielded' = yielded
                      /\ strm' = [strm EXCEPT
                            !.current_tool_input_chunks =
                                IF strm.current_tool_name # ""
                                THEN Append(strm.current_tool_input_chunks, piece)
                                ELSE strm.current_tool_input_chunks,
                            !.rest = rest, !.stage = stage]
    /\ UNCHANGED <<agent, op, pc, history, messages, final_text_parts, call_count,
                   response, ret, events, issued, variety, mcp, ui, fmt, loc, otherVars>>
    /\ ExitStackStep(0)

\* a content_block_stop event, with the tool call and the continuation it starts
ClaudeStreamBlockStop ==
    /\ agent = "claude" /\ op = "request_streaming" /\ pc = "stream"
    /\ strm.stage = "stop"
    /\ IF strm.current_tool_name # "" /\ strm.current_tool_use_id # 0
       THEN LET full_tool_input_str == Flatten(strm.current_tool_input_chunks)
                tool_input == JsonLoads(full_tool_input_str)
                name == strm.current_tool_name
                id == strm.current_tool_use_id
                amc == [i \in 1..Len(strm.assistant_message_content) |->
                          IF strm.assistant_message_content[i].id = id
                          THEN [strm.assistant_message_content[i] EXCEPT !.input = tool_input]
                          ELSE strm.assistant_message_content[i]]
                requested == Append(events,
                                    EvResponse(ClaudeStreamRequested(strm.plan.content)))
            IN  IF ~tool_input.ok
                THEN /\ yielded' = Append(yielded,
                           <<"\nError using tool ", name, ": ", "JSONDecodeError">>)
                     /\ events' = requested
                     /\ pc' = "done" /\ ret' = Returned(<<>>)
                     /\ strm' = StrmIdle
                     /\ UNCHANGED <<messages, variety>>
                ELSE \E outcome \in ToolOutcomes :
                     /\ strm' = StrmIdle
                     /\ variety + B2N(outcome # "ok") <= MaxVariety
                     /\ variety' = variety + B2N(outcome # "ok")
                     /\ events' = Append(requested, EvTool(id, tool_input, outcome))
                     /\ IF outcome = "raise"
                        THEN /\ yielded' = Append(yielded,
                                   <<"\nError using tool ", name, ": ", ToolError.msg>>)
                             /\ pc' = "done" /\ ret' = Returned(<<>>)
                             /\ UNCHANGED messages
                        ELSE /\ messages' = messages \o
                                   << CLMsg("assistant", amc),
                                      CLMsg("user", <<ToolResultBlock(id, ToolResultContent(outcome))>>) >>
                             /\ pc' = "open"
                             /\ UNCHANGED <<ret, yielded>>
       ELSE /\ strm' = IF strm.j < Len(strm.plan.content)
                       THEN [strm EXCEPT !.j = strm.j + 1, !.stage = "start"]
                       ELSE [strm EXCEPT !.j = 0, !.stage = "end"]
            /\ UNCHANGED <<pc, ret, yielded, messages, events, variety>>
    /\ UNCHANGED <<agent, op, history, final_text_parts, call_count, response, issued, mcp, ui, fmt, loc, otherVars>>
    /\ ExitStackStep(0)

\* the message_delta and message_stop events, after which the stream is exhausted
ClaudeStreamEnd ==
    /\ agent = "claude" /\ op = "request_streaming" /\ pc = "stream"
    /\ strm.stage = "end"
    /\ events' = Append(events, EvResponse(<<>>))
    /\ pc' = "done" /\ ret' = Returned(<<>>)
    /\ strm' = StrmIdle
    /\ UNCHANGED <<agent, op, history, messages, final_text_parts, call_count,
                   response, yielded, issued, variety, mcp, ui, fmt, loc, otherVars>>
    /\ ExitStackStep(0)

\* the stream raises while it is iterated
ClaudeStreamError ==
    /\ agent = "claude" /\ op = "request_streaming" /\ pc = "stream"
    /\ \E e \in TransportErrors :
          yielded' = Append(yielded, ClaudeStreamErrorFragment(e))
    /\ pc' = "done" /\ ret' = Returned(<<>>)
    /\ strm' = StrmIdle
    /\ UNCHANGED <<agent, op, history, messages, final_text_parts, call_count,
                   response, events, issued, variety, mcp, ui, fmt, loc, otherVars>>
    /\ ExitStackStep(0)

----------------------------------------------------------------------------
(* GeminiAgent: request_streaming                                          *)

\* at most this many chunks in one provider stream
MaxChunks == 2

GeminiStreamingStart ==
    /\ agent = "gemini" /\ op = "request_streaming" /\ pc = "init"
    /\ \/ /\ \E i \in 1..Len(history) : ~GeminiHandles(history[i])
          /\ ret' = Raised(Exc("ValueError", "Invalid content type"))
          /\ pc' = "done"
          /\ UNCHANGED messages
       \/ /\ \A i \in 1..Len(history) : GeminiHandles(history[i])
          /\ messages' = [i \in 1..Len(history) |-> GeminiConstructRequest(history[i])]
          /\ pc' = "open" /\ ret' = ret
    /\ UNCHANGED <<agent, op, history, final_text_parts, call_count, response,
                   yielded, events, issued, variety, strm, mcp, ui, fmt, loc, otherVars>>
    /\ conn' = conn

\* one pass of the for loop up to the first chunk: generate_content_stream
GeminiStreamOpen ==
    /\ agent = "gemini" /\ op = "request_streaming" /\ pc = "open"
    /\ call_count < MAX_REQUEST_COUNT
    /\ events' = Append(events, EvProvider(Len(messages)))
    /\ \/ \E e \in TransportErrors :
            /\ pc' = "done" /\ ret' = Raised(e)
            /\ strm' = strm
       \/ /\ pc' = "stream" /\ ret' = ret
          /\ strm' = [open |-> TRUE, chunks |-> 0, is_final_response |-> TRUE]
    /\ UNCHANGED <<agent, op, history, messages, final_text_parts, call_count,
                   response, yielded, issued, variety, mcp, ui, fmt, loc, otherVars>>
    /\ conn' = conn

\* one chunk of the stream, with the tool calls its parts ask for
GeminiStreamChunk ==
    /\ agent = "gemini" /\ op = "request_streaming" /\ pc = "stream"
    /\ strm.chunks < MaxChunks
    /\ \E r0 \in GeminiResponses \ {<<>>} :
       \E b \in [1..Len(r0) -> ServerBehaviours] :
          LET parts == GeminiFreshIds(r0, issued)
              acc == GeminiProcessParts(parts, b, 1,
                        [msgs |-> messages, texts |-> yielded,
                         evs |-> Append(events,
                                        EvResponseText(GeminiRequested(parts),
                                                       Len(TextBlocks(parts)))),
                         is_final |-> strm.is_final_response, streaming |-> TRUE,
                         raised |-> FALSE, exc |-> Exc("", ""), open |-> conn])
          IN  /\ \A i \in 1..Len(parts) : parts[i].type = "text" => b[i] = "ok"
              /\ conn' = acc.open
              /\ variety + GeminiCost(parts, b) <= MaxVariety
              /\ variety' = variety + GeminiCost(parts, b)
              /\ issued' = issued + Len(FunctionCalls(parts))
              /\ messages' = acc.msgs
              /\ yielded' = acc.texts
              /\ events' = acc.evs
              /\ IF acc.raised
                 THEN pc' = "done" /\ ret' = Raised(acc.exc) /\ strm' = StrmIdle
                 ELSE /\ pc' = pc /\ ret' = ret
                      /\ strm' = [strm EXCEPT !.chunks = strm.chunks + 1,
                                              !.is_final_response = acc.is_final]
    /\ UNCHANGED <<agent, op, history, final_text_parts, call_count, response, mcp, ui, fmt, loc, otherVars>>

\* the stream is exhausted: the end of one pass of the for loop
GeminiStreamEnd ==
    /\ agent = "gemini" /\ op = "request_streaming" /\ pc = "stream"
    /\ strm' = StrmIdle
    /\ IF strm.is_final_response
       THEN pc' = "done" /\ ret' = Returned(<<>>) /\ call_count' = call_count
       ELSE /\ call_count' = call_count + 1
            /\ IF call_count + 1 < MAX_REQUEST_COUNT
               THEN pc' = "open" /\ ret' = ret
               ELSE pc' = "done" /\ ret' = Returned(<<>>)
    /\ UNCHANGED <<agent, op, history, messages, final_text_parts, response,
                   yielded, events, issued, variety, mcp, ui, fmt, loc, otherVars>>
    /\ conn' = conn

\* the stream raises while it is iterated
GeminiStreamError ==
    /\ agent = "gemini" /\ op = "request_streaming" /\ pc = "stream"
    /\ \E e \in TransportErrors : ret' = Raised(e)
    /\ pc' = "done"
    /\ strm' = StrmIdle
    /\ UNCHANGED <<agent, op, history, messages, final_text_parts, call_count,
                   response, yielded, events, issued, variety, mcp, ui, fmt, loc, otherVars>>
    /\ conn' = conn

----------------------------------------------------------------------------
(* Specification of the provider agents *)

McpIdle == [phase |-> "idle"]

UiIdle == [phase |-> "idle"]

FmtIdle == [phase |-> "idle"]

LocIdle == [phase |-> "idle"]

CtlIdle == [phase |-> "idle"]

MlxIdle == [phase |-> "idle"]

DbIdle == [phase |-> "idle"]

OthersIdle == controller = CtlIdle /\ mlx = MlxIdle /\ db = DbIdle

Init ==
    /\ agent \in {"openai", "claude", "gemini"}
    /\ op \in {"request", "request_streaming"}
    /\ history \in Histories
    /\ pc = "init"
    /\ messages = <<>>
    /\ final_text_parts = <<>>
    /\ call_count = 0
    /\ response = [content |-> <<>>, tool_calls |-> <<>>, finish_reason |-> "none"]
    /\ ret = NoRet
    /\ yielded = <<>>
    /\ events = <<>>
    /\ issued = 0
    /\ variety = 0
    /\ strm = StrmIdle
    /\ mcp = McpIdle
    /\ ui = UiIdle
    /\ fmt = FmtIdle
    /\ loc = LocIdle
    /\ conn = 0
    /\ OthersIdle

Next ==
    \/ OpenAIRequestStart
    \/ OpenAIRequestRound
    \/ ClaudeRequestStart
    \/ ClaudeRequestRound
    \/ GeminiRequestStart
    \/ GeminiRequestRound
    \/ OpenAIStreamingStart
    \/ OpenAIStreamOpen
    \/ OpenAIStreamContent
    \/ OpenAIStreamToolDelta
    \/ OpenAIStreamFinish
    \/ OpenAIStreamError
    \/ ClaudeStreamingStart
    \/ ClaudeStreamOpen
    \/ ClaudeStreamBlockStart
    \/ ClaudeStreamDelta
    \/ ClaudeStreamBlockStop
    \/ ClaudeStreamEnd
    \/ ClaudeStreamError
    \/ GeminiStreamingStart
    \/ GeminiStreamOpen
    \/ GeminiStreamChunk
    \/ GeminiStreamEnd
    \/ GeminiStreamError

Spec == Init /\ [][Next]_vars

----------------------------------------------------------------------------
(* The tool registries: McpHandler of agents/mcp_handler.py (sessions kept *)
(* open on the caller's exit stack, separator "/") and McpHandler of       *)
(* agents/mcp_tools/mcp_handler.py (a connection per operation, separator  *)
(* "__").                                                                  *)
(*                                                                         *)
(* mcp.config is the content of the server configuration, mcp.up the       *)
(* servers that accept connections and mcp.lists the servers that answer   *)
(* list_tools; mcp.log records every contact with a tool server.           *)

\* at most this many call_tool invocations on one registry
MaxCalls == 2

McpServers == { <<"weather">>, <<"files">> }

\* the order of the keys of the configuration
ServerOrder == << <<"weather">>, <<"files">> >>

\* the local tool names each server lists; a local name may hold the
\* characters of a separator
ServerTools(server) ==
    IF server = <<"weather">>
    THEN << <<"get_alerts">> >>
    ELSE << <<"read">>, <<"read", "/", "x">>, <<"read", "__", "x">> >>

McpConfigs ==
    { [s \in McpServers |-> IF s = <<"weather">> THEN w ELSE f] :
        w \in {ServerConfig("command", FALSE), ServerConfig("none", FALSE)},
        f \in {ServerConfig("url", FALSE), ServerConfig("url", TRUE)} }

\* the arguments handed to call_tool: a dict, a str or something else
McpArg(type, text) == [type |-> type, text |-> text]

McpArgs ==
    { McpArg("dict", <<"{", "k", "1", "}">>), McpArg("str", <<"{", "k", "1", "}">>),
      McpArg("str", <<"{">>), McpArg("str", <<"1">>), McpArg("other", <<>>) }

\* the names handed to call_tool with separator sep
McpNames(sep) ==
    { <<"weather", sep, "get_alerts">>, <<"files", sep, "read">>,
      <<"ghost", sep, "read">>, <<"get_alerts">> }

\* what the tool server does with a call that reaches it
ToolBehaviours == {"ok", "is_error", "raise", "empty"}

Contact(server, what) == [server |-> server, what |-> what]

\* connect: the loop over server_configs.items() from position k on
RECURSIVE ConnectFrom(_, _, _, _)
ConnectFrom(config, up, k, acc) ==
    IF k > Len(ServerOrder) THEN acc
    ELSE LET server == ServerOrder[k]
         IN  IF config[server].disabled \/ config[server].kind \notin {"command", "url"}
             THEN ConnectFrom(config, up, k + 1, acc)
             ELSE ConnectFrom(config, up, k + 1,
                    [sessions |-> IF server \in up
                                  THEN Append(acc.sessions, server) ELSE acc.sessions,
                     log |-> Append(acc.log, Contact(server, "connect"))])

Qualified(server, sep, tool) == server \o <<sep>> \o tool

QualifiedTools(server, sep) ==
    [i \in 1..Len(ServerTools(server)) |-> Qualified(server, sep, ServerTools(server)[i])]

\* str.replace(old, new) on a name
ReplaceToken(name, old, new) ==
    [i \in 1..Len(name) |-> IF name[i] = old THEN new ELSE name[i]]

\* the name format_tools_for_openai and format_tools_for_claude advertise for
\* a tool of the list of list_tools
FormatToolName(name) == ReplaceToken(name, "/", "__")

\* the name the formatters of agents/mcp_tools advertise for a tool of the
\* cached list: tool.name
ToolFormatterName(name) == name

\* the names a registry advertises to a provider for its tool list
AdvertisedNames(impl, tools) ==
    { IF impl = "sessions" THEN FormatToolName(tools[k]) ELSE ToolFormatterName(tools[k]) :
        k \in 1..Len(tools) }

\* list_tools: the loop over sessions.items(); a server that fails is skipped
RECURSIVE ListToolsFrom(_, _, _, _)
ListToolsFrom(sessions, lists, k, acc) ==
    IF k > Len(sessions) THEN acc
    ELSE ListToolsFrom(sessions, lists, k + 1,
            [tools |-> IF sessions[k] \in lists
                       THEN acc.tools \o QualifiedTools(sessions[k], "/") ELSE acc.tools,
             log |-> Append(acc.log, Contact(sessions[k], "list_tools"))])

\* call_tool of agents/mcp_handler.py; attr: the result object of the session
\* has an attribute is_error
McpHandlerCallTool(sessions, name, args, beh, attr) ==
    LET parts == SplitFirst(name, "/")
        has_session == \E k \in 1..Len(sessions) : sessions[k] = parts[1]
        parses == args.type = "dict" \/ (args.type = "str" /\ JsonLoads(args.text).ok)
    IN  IF ~HasToken(name, "/")
        THEN CallReturn(<<"Error: Invalid tool name format">>, TRUE, TRUE, FALSE, FALSE)
        ELSE IF ~has_session
        THEN CallReturn(<<"Error: No active session for server">>, TRUE, TRUE, FALSE, FALSE)
        ELSE IF ~parses
        THEN CallReturn(<<"Error processing arguments for tool">>, TRUE, TRUE, FALSE, FALSE)
        ELSE IF beh = "raise"
        THEN CallReturn(<<"Tool execution error", ToolError.msg>>, TRUE, TRUE, FALSE, TRUE)
        ELSE CallReturn(IF beh = "empty" THEN <<>> ELSE ToolResultContent(beh),
                        TRUE, attr /\ beh = "is_error", FALSE, TRUE)

\* _cache_tool_list: the loop over config.keys() from position k on; it stops
\* where connect_with_server_name or list_tools raises
RECURSIVE CacheToolListFrom(_, _, _, _, _)
CacheToolListFrom(config, up, lists, k, acc) ==
    IF k > Len(ServerOrder) THEN acc
    ELSE LET server == ServerOrder[k]
             log == Append(acc.log, Contact(server, "connect"))
         IN  IF config[server].disabled
             THEN CacheToolListFrom(config, up, lists, k + 1, acc)
             ELSE IF config[server].kind \notin {"command", "url"}
             THEN [acc EXCEPT !.raised = TRUE,
                              !.exc = Exc("ValueError", "Invalid MCP server config")]
             ELSE IF server \notin up
             THEN [acc EXCEPT !.raised = TRUE, !.exc = McpConnectError, !.log = log]
             ELSE IF server \notin lists
             THEN [acc EXCEPT !.raised = TRUE, !.exc = ToolError,
                              !.log = Append(log, Contact(server, "list_tools"))]
             ELSE CacheToolListFrom(config, up, lists, k + 1,
                     [acc EXCEPT !.tools = acc.tools \o QualifiedTools(server, "__"),
                                 !.log = Append(log, Contact(server, "list_tools"))])

NoCall == [called |-> FALSE, name |-> <<>>, args |-> McpArg("other", <<>>), beh |-> "",
           res |-> CallReturn(<<>>, FALSE, FALSE, FALSE, FALSE)]

Called(name, args, beh, res) ==
    [called |-> TRUE, name |-> name, args |-> args, beh |-> beh, res |-> res]

\* McpHandler() of agents/mcp_handler.py followed by connect(exit_stack)
Connect ==
    /\ mcp.phase = "new" /\ mcp.impl = "sessions"
    /\ LET acc == ConnectFrom(mcp.config, mcp.up, 1, [sessions |-> <<>>, log |-> mcp.log])
       IN  mcp' = [mcp EXCEPT !.phase = "ready", !.sessions = acc.sessions,
                              !.open = Len(acc.sessions), !.log = acc.log]
    /\ UNCHANGED <<agentVars, ui, fmt, loc, otherVars>>

ListTools ==
    /\ mcp.phase = "ready" /\ mcp.impl = "sessions"
    /\ ~mcp.listed
    /\ LET acc == ListToolsFrom(mcp.sessions, mcp.lists, 1, [tools |-> <<>>, log |-> mcp.log])
       IN  mcp' = [mcp EXCEPT !.tools = acc.tools, !.log = acc.log, !.listed = TRUE]
    /\ UNCHANGED <<agentVars, ui, fmt, loc, otherVars>>

\* one call_tool on the registry that keeps sessions
SessionsCallTool ==
    /\ mcp.phase = "ready" /\ mcp.impl = "sessions"
    /\ mcp.calls < MaxCalls
    /\ \E name \in McpNames("/") \cup AdvertisedNames(mcp.impl, mcp.tools),
          args \in McpArgs, beh \in ToolBehaviours, attr \in BOOLEAN :
          LET res == McpHandlerCallTool(mcp.sessions, name, args, beh, attr)
          IN  /\ (~res.invoked) => (beh = "ok" /\ attr)
              /\ beh # "is_error" => attr
              /\ mcp' = [mcp EXCEPT
                           !.calls = mcp.calls + 1,
                           !.last = Called(name, args, beh, res),
                           !.log = IF res.invoked
                                   THEN Append(mcp.log,
                                               Contact(SplitFirst(name, "/")[1], "call_tool"))
                                   ELSE mcp.log]
    /\ UNCHANGED <<agentVars, ui, fmt, loc, otherVars>>

\* the caller leaves its AsyncExitStack: every session is closed
CloseExitStack ==
    /\ mcp.phase = "ready" /\ mcp.impl = "sessions"
    /\ mcp' = [mcp EXCEPT !.phase = "closed", !.sessions = <<>>, !.open = 0]
    /\ UNCHANGED <<agentVars, ui, fmt, loc, otherVars>>

\* McpHandler(config_path) of agents/mcp_tools/mcp_handler.py
CacheToolList ==
    /\ mcp.phase = "new" /\ mcp.impl = "per_call"
    /\ LET acc == CacheToolListFrom(mcp.config, mcp.up, mcp.lists, 1,
                     [tools |-> <<>>, log |-> mcp.log, raised |-> FALSE, exc |-> Exc("", "")])
       IN  mcp' = [mcp EXCEPT !.phase = IF acc.raised THEN "failed" ELSE "ready",
                              !.tools = IF acc.raised THEN <<>> ELSE acc.tools,
                              !.listed = ~acc.raised,
                              !.exc = acc.exc,
                              !.log = acc.log]
    /\ UNCHANGED <<agentVars, ui, fmt, loc, otherVars>>

\* one call_tool on the registry that connects per operation; the connection
\* is closed when the async with block is left
PerCallCallTool ==
    /\ mcp.phase = "ready" /\ mcp.impl = "per_call"
    /\ mcp.calls < MaxCalls
    /\ \E name \in McpNames("__") \cup AdvertisedNames(mcp.impl, mcp.tools),
          args \in McpArgs, b \in ToolBehaviours :
          LET server == SplitFirst(name, "__")[1]
              beh == IF server \notin mcp.up THEN "unreachable" ELSE b
              res == McpToolsCallTool(mcp.config, name, args, beh)
          IN  /\ (~res.invoked) => b = "ok"
              /\ mcp' = [mcp EXCEPT
                           !.calls = mcp.calls + 1,
                           !.last = Called(name, args, beh, res),
                           !.log = mcp.log
                              \o (IF res.opened THEN <<Contact(server, "connect")>> ELSE <<>>)
                              \o (IF res.invoked THEN <<Contact(server, "call_tool")>> ELSE <<>>)]
    /\ UNCHANGED <<agentVars, ui, fmt, loc, otherVars>>

NewRegistry(impl, config, up, lists) ==
    [phase |-> "new", impl |-> impl, config |-> config, up |-> up, lists |-> lists,
     sessions |-> <<>>, open |-> 0, tools |-> <<>>, listed |-> FALSE,
     exc |-> Exc("", ""), log |-> <<>>, calls |-> 0, last |-> NoCall]

InitMcp ==
    /\ agent = "none" /\ op = "none" /\ pc = "idle"
    /\ history = <<>> /\ messages = <<>> /\ final_text_parts = <<>>
    /\ call_count = 0
    /\ response = [content |-> <<>>, tool_calls |-> <<>>, finish_reason |-> "none"]
    /\ ret = NoRet /\ yielded = <<>> /\ events = <<>>
    /\ issued = 0 /\ variety = 0 /\ strm = StrmIdle
    /\ mcp \in { NewRegistry(impl, config, up, lists) :
                    impl \in {"sessions", "per_call"}, config \in McpConfigs,
                    up \in SUBSET McpServers, lists \in SUBSET McpServers }
    /\ ui = UiIdle
    /\ fmt = FmtIdle
    /\ loc = LocIdle
    /\ conn = 0
    /\ OthersIdle

NextMcp ==
    \/ Connect
    \/ ListTools
    \/ SessionsCallTool
    \/ CloseExitStack
    \/ CacheToolList
    \/ PerCallCallTool

SpecMcp == InitMcp /\ [][NextMcp]_vars

----------------------------------------------------------------------------
(* Observations on the log of an invocation *)

\* the provider calls made so far (completions, messages or streams opened)
ProviderCalls == Cardinality({i \in 1..Len(events) : events[i].e = "provider"})

ToolExecuted == \E i \in 1..Len(events) : events[i].e = "tool"

IdsOf(evs) == [k \in 1..Len(evs) |-> evs[k].id]

\* the tool executions logged strictly between positions i and j
ToolsBetween(i, j) == SelectSeq(SubSeq(events, i + 1, j - 1), LAMBDA x : x.e = "tool")

\* the first token of the strings the except clauses of request return
DiagnosticPrefixes ==
    {"An error occurred: ", "API Connection Error: ", "Rate Limit Exceeded: ", "API Error "}

IsDiagnostic(v) == v # <<>> /\ v[1] \in DiagnosticPrefixes

IsTransportDiagnostic(v) ==
    IsDiagnostic(v) /\ v[Len(v)] \in {e.msg : e \in TransportErrors}

Finished == pc = "done"

----------------------------------------------------------------------------
(* Properties of the tool-use round loop *)

\* C1: request of the OpenAI, Claude and Gemini agents stops within the round
\* limit and makes at most MAX_REQUEST_COUNT provider calls in one invocation,
\* even when every response asks for a tool.
C1_RequestCallsBounded ==
    op = "request" =>
        /\ call_count <= MAX_REQUEST_COUNT
        /\ ProviderCalls <= MAX_REQUEST_COUNT

\* C2: request_streaming of every provider opens at most MAX_REQUEST_COUNT
\* provider streams in one invocation.
C2_StreamsBounded ==
    op = "request_streaming" => ProviderCalls <= MAX_REQUEST_COUNT

\* C3: in the OpenAI and Claude streaming paths a tool call whose argument
\* JSON arrives in fragments, however they are cut (the chunk that starts the
\* tool call may already carry argument text), is executed exactly once, only
\* after the signal that ends it, with the parse of the whole argument text.
C3_StreamedArgumentsWhole ==
    (op = "request_streaming" /\ agent \in {"openai", "claude"}) =>
        /\ \A i \in 1..Len(events) :
              (events[i].e = "response" /\ Len(events[i].calls) = 1
                                        /\ events[i].calls[1].valid) =>
                 LET c == events[i].calls[1]
                     runs == {k \in 1..Len(events) :
                                 events[k].e = "tool" /\ events[k].id = c.id}
                 IN  /\ Cardinality(runs) = 1
                     /\ \A k \in runs : k > i /\ events[k].args = c.args
        /\ (pc = "stream" /\ agent = "openai") =>
              \A k \in 1..Len(events) :
                 events[k].e = "tool" =>
                    \A j \in 1..Len(strm.plan.calls) : strm.plan.calls[j].id # events[k].id

\* C4: for every response of request that asks for k >= 1 tool calls, each of
\* them is executed exactly once, in the order given, before the next provider
\* call is made; none is skipped.
C4_EveryToolCallExecuted ==
    op = "request" =>
        \A i, j \in 1..Len(events) :
           (/\ i < j
            /\ events[i].e = "response" /\ events[i].calls # <<>>
            /\ events[j].e = "provider"
            /\ \A m \in (i + 1)..(j - 1) : events[m].e = "tool") =>
              IdsOf(ToolsBetween(i, j))
                 = IdsOf(SelectSeq(events[i].calls, LAMBDA c : c.valid))

\* C5: when request executed at least one tool call and the provider produced
\* no text, request returns "[Tool use completed]"; it never returns the empty
\* string after tool activity.
C5_ToolUseCompletedSentinel ==
    (/\ op = "request" /\ Finished /\ ret.kind = "return"
     /\ ToolExecuted /\ final_text_parts = <<>>
     /\ ~IsDiagnostic(ret.value)) =>
        ret.value = <<"[Tool use completed]">>

\* C6: when the provider produced no text and asked for no tool in this
\* invocation, request returns the "No response generated" sentinel, whatever
\* the input history holds; "[Tool use completed]" is returned only if a tool
\* call occurred in this invocation.
C6_NoResponseSentinel ==
    (/\ agent \in {"openai", "claude"} /\ op = "request"
     /\ Finished /\ ret.kind = "return" /\ ~IsDiagnostic(ret.value)
     /\ final_text_parts = <<>> /\ issued = 0) =>
        /\ ret.value # <<>>
        /\ ret.value[1] \in {"No response generated.", "No response generated (Stop: "}

\* C7: an exception of the provider transport never leaves request or
\* request_streaming; request returns a diagnostic string instead.
C7_TransportErrorsContained ==
    Finished => ~(ret.kind = "raise" /\ ret.exc \in TransportErrors)

\* C8: a tool call that fails (the session raises or reports an error) is
\* recorded as a tool-result turn of the native history and the provider is
\* called again while rounds remain; one failing tool call does not end the
\* invocation.
C8_ToolFailureFedBack ==
    (agent \in {"openai", "claude"} /\ Finished) =>
        \A i \in 1..Len(events) :
           (/\ events[i].e = "tool" /\ events[i].outcome # "ok"
            /\ IF op = "request" THEN call_count < MAX_REQUEST_COUNT
                                 ELSE ProviderCalls < MAX_REQUEST_COUNT) =>
              /\ \E j \in (i + 1)..Len(events) : events[j].e = "provider"
              /\ IF agent = "openai"
                 THEN \E m \in 1..Len(messages) :
                         messages[m].role = "tool" /\ messages[m].tool_call_id = events[i].id
                 ELSE \E m \in 1..Len(messages) :
                      \E b \in 1..Len(messages[m].content) :
                         /\ messages[m].content[b].type = "tool_result"
                         /\ messages[m].content[b].id = events[i].id

\* C9: when the transport fails in a later round, the string request returns
\* still contains the text accumulated in the earlier rounds.
C9_TextSurvivesTransportError ==
    (/\ agent \in {"openai", "claude"} /\ op = "request"
     /\ Finished /\ ret.kind = "return" /\ IsTransportDiagnostic(ret.value)) =>
        \A k \in 1..Len(final_text_parts) :
           \A t \in 1..Len(final_text_parts[k]) :
              Contains(ret.value, final_text_parts[k][t])

----------------------------------------------------------------------------
(* Properties of the tool registries *)

\* C10: call_tool of a registry lets no exception of the remote tool call
\* propagate: when connecting to the server or invoking the tool raises,
\* call_tool returns a result with is_error = true and a message in content.
C10_CallToolContainsRemoteFailure ==
    (/\ mcp.last.called
     /\ mcp.last.beh \in {"raise", "unreachable"}
     /\ mcp.last.res.opened \/ mcp.last.res.invoked) =>
        /\ ~mcp.last.res.raised
        /\ mcp.last.res.has_is_error /\ mcp.last.res.is_error
        /\ mcp.last.res.content # <<>>

\* the separator of the registry under call_tool
RegistrySeparator == IF mcp.impl = "sessions" THEN "/" ELSE "__"

\* the server prefix of the name of the last call_tool
LastPrefix == SplitFirst(mcp.last.name, RegistrySeparator)[1]

\* the servers the registry can dispatch to: those with a session, or those
\* of the configuration
KnownServers ==
    IF mcp.impl = "sessions"
    THEN {mcp.sessions[k] : k \in 1..Len(mcp.sessions)}
    ELSE DOMAIN mcp.config

ReturnedError(res) == ~res.raised /\ res.has_is_error /\ res.is_error

\* C11: call_tool with a qualified name whose server prefix is not a connected
\* or configured server returns a result with is_error = true, never raises,
\* and contacts no tool server.
C11_UnknownServerIsErrorResult ==
    (/\ mcp.last.called
     /\ HasToken(mcp.last.name, RegistrySeparator)
     /\ LastPrefix \notin KnownServers) =>
        /\ ReturnedError(mcp.last.res)
        /\ ~mcp.last.res.opened /\ ~mcp.last.res.invoked

\* C12: call_tool with a tool name that does not contain the separator returns
\* a result with is_error = true and never raises.
C12_MissingSeparatorIsErrorResult ==
    (mcp.last.called /\ ~HasToken(mcp.last.name, RegistrySeparator)) =>
        ReturnedError(mcp.last.res)

\* C13: every result call_tool returns carries an is_error field; the field is
\* true when the remote tool itself reports failure, and false only when the
\* tool executed successfully.
C13_IsErrorReflectsToolFailure ==
    (mcp.last.called /\ ~mcp.last.res.raised) =>
        /\ mcp.last.res.has_is_error
        /\ (mcp.last.res.invoked /\ mcp.last.beh = "is_error") => mcp.last.res.is_error
        /\ ~mcp.last.res.is_error =>
              (mcp.last.res.invoked /\ mcp.last.beh \in {"ok", "empty"})

\* the qualified names in the tool list of the registry
ListedNames == {mcp.tools[k] : k \in 1..Len(mcp.tools)}

\* the registry has produced its tool list, or failed to
ListingDone == mcp.phase = "failed" \/ (mcp.phase \in {"ready", "closed"} /\ mcp.listed)

\* C14: tool listing tolerates the failure of one server: when connecting to or
\* listing a server fails, the tools of every other enabled server that
\* answers are still listed, and no error is raised.
C14_ListingToleratesServerFailure ==
    (/\ ListingDone
     /\ \A s \in DOMAIN mcp.config : mcp.config[s].kind \in {"command", "url"}) =>
        /\ mcp.phase # "failed"
        /\ \A s \in DOMAIN mcp.config :
              (~mcp.config[s].disabled /\ s \in mcp.up /\ s \in mcp.lists) =>
                 \A k \in 1..Len(ServerTools(s)) :
                    Qualified(s, RegistrySeparator, ServerTools(s)[k]) \in ListedNames

\* C15: no registry operation opens a connection to a server whose
\* configuration entry is marked disabled: its tools never appear in the tool
\* list and call_tool with a name prefixed by it does not connect to it.
C15_DisabledServerNeverContacted ==
    mcp.phase # "idle" =>
        /\ \A k \in 1..Len(mcp.log) : ~mcp.config[mcp.log[k].server].disabled
        /\ \A s \in DOMAIN mcp.config :
              mcp.config[s].disabled =>
                 \A k \in 1..Len(ServerTools(s)) :
                    Qualified(s, RegistrySeparator, ServerTools(s)[k]) \notin ListedNames

\* the name under which a tool of the tool list is advertised to the provider
Advertise(name) ==
    IF mcp.impl = "sessions" THEN FormatToolName(name) ELSE ToolFormatterName(name)

\* C16: with distinct server names and distinct tool names within each server,
\* the qualified names of the tool list, and the names advertised to the
\* provider after formatting, are pairwise unique, and the server prefix of
\* each is the configured server that listed it.
C16_QualifiedNamesUnique ==
    (ListingDone /\ mcp.phase # "failed") =>
        /\ \A i, j \in 1..Len(mcp.tools) :
              i # j => /\ mcp.tools[i] # mcp.tools[j]
                       /\ Advertise(mcp.tools[i]) # Advertise(mcp.tools[j])
        /\ \A i \in 1..Len(mcp.tools) :
              LET prefix == SplitFirst(mcp.tools[i], RegistrySeparator)[1]
              IN  /\ prefix \in DOMAIN mcp.config
                  /\ \E k \in 1..Len(ServerTools(prefix)) :
                        mcp.tools[i] = Qualified(prefix, RegistrySeparator,
                                                 ServerTools(prefix)[k])

\* C17: for every tool of the tool list, passing the name under which it is
\* advertised to the provider back to call_tool dispatches the call to the
\* server that listed the tool, with the tool's local name (the name is split
\* at the first separator), also when a name holds separator characters.
C17_AdvertisedNameRoundTrip ==
    \A s \in DOMAIN mcp.config :
       \A k \in 1..Len(ServerTools(s)) :
          LET q == Qualified(s, RegistrySeparator, ServerTools(s)[k])
          IN  (/\ mcp.last.called
               /\ q \in ListedNames
               /\ mcp.last.name = Advertise(q)
               /\ mcp.last.args.type = "dict"
               /\ s \in mcp.up) =>
                  /\ mcp.last.res.invoked
                  /\ SplitFirst(mcp.last.name, RegistrySeparator) = <<s, ServerTools(s)[k]>>

----------------------------------------------------------------------------
(***************************************************************************)
(* The chat page: message submission (controllers/message_input_controller *)
(* and the older components/chat_space), the chat list view with its       *)
(* ChatDisplayController, the pubsub AgentController, and the two agent    *)
(* factories.  ui.queue holds the published SUBMIT_MESSAGE and             *)
(* START_SUBMISSION events the view has not handled yet; each subscriber   *)
(* runs as one step.  The agent behind the controllers is the environment: *)
(* an AgentRun says how many chunks it produces and whether it raises.     *)
(***************************************************************************)
MaxSubmits == 2
MaxUiChunks == 2

USER_NAME == "User"
APP_ROLE_NAME == "App"
AgentRoleName == "Agent (model)"

RoleNames == {USER_NAME, APP_ROLE_NAME, AgentRoleName}

UiMsg(role, text) == [role |-> role, text |-> text]

UiTexts == { <<>>, <<" ", "\n">>, <<"h", "i">> }

UiLists ==
    { <<UiMsg(r, <<"h", "i">>)>> : r \in RoleNames }
       \cup { <<UiMsg(USER_NAME, <<"h", "i">>), UiMsg(r, <<"o", "k">>)>> : r \in RoleNames }

AgentRuns == [chunks : 0..MaxUiChunks, raises : BOOLEAN]

Published(topic, payload) == [topic |-> topic, payload |-> payload]

Invoked(operation, mlist) == [operation |-> operation, messages |-> mlist]

ChunkText(k) == [i \in 1..k |-> "r"]

ChatMessage(m) == [inprogress |-> FALSE, message |-> m]

InprogressMessage == [inprogress |-> TRUE, message |-> UiMsg("", <<>>)]

IncludedInAgentRequest(ctl) == ~ctl.inprogress

ControlMessages(controls) ==
    LET kept == SelectSeq(controls, IncludedInAgentRequest)
    IN  [i \in 1..Len(kept) |-> kept[i].message]

\* What one run of a controller did: the agent operations it invoked, the
\* messages it handed back or published, what it persisted, whether it raised.
Turn(invoked, out, published, persisted, raised) ==
    [invoked |-> invoked, yielded |-> out, published |-> published,
     persisted |-> persisted, raised |-> raised]

NoTurn == Turn(<<>>, <<>>, <<>>, <<>>, FALSE)

\* ChatDisplayController.get_agent_response, run to exhaustion by its caller.
GetAgentResponse(mlist, run, streamable) ==
    IF mlist[Len(mlist)].role = APP_ROLE_NAME
    THEN NoTurn
    ELSE Turn(<<Invoked(IF streamable THEN "request_streaming" ELSE "request", mlist)>>,
              [i \in 1..run.chunks |-> UiMsg(AgentRoleName, ChunkText(i))],
              <<>>,
              IF run.raises THEN <<>> ELSE <<UiMsg(AgentRoleName, ChunkText(run.chunks))>>,
              run.raises)

\* AgentController.stream_request followed by insert_into_db.
StreamRequest(mlist, run) ==
    Turn(<<Invoked("request_streaming", mlist)>>,
         <<>>,
         [i \in 1..run.chunks |->
             Published(IF i = 1 THEN "APPEND_MESSAGE" ELSE "UPDATE_MESSAGE_STREAMLY",
                       <<UiMsg(AgentRoleName, ChunkText(i))>>)],
         IF run.raises \/ run.chunks = 0
            THEN <<>> ELSE <<UiMsg(AgentRoleName, ChunkText(run.chunks))>>,
         run.raises \/ run.chunks = 0)

\* AgentController.batch_request followed by insert_into_db.
BatchRequest(mlist, run) ==
    LET response_message == UiMsg(AgentRoleName, ChunkText(run.chunks))
    IN  Turn(<<Invoked("request", mlist)>>,
             <<>>,
             IF run.raises THEN <<>> ELSE <<Published("APPEND_MESSAGE", <<response_message>>)>>,
             IF run.raises THEN <<>> ELSE <<response_message>>,
             run.raises)

\* AgentController.recieve_message.
RecieveMessageTurn(mlist, run, streamable) ==
    IF mlist[Len(mlist)].role # USER_NAME
    THEN NoTurn
    ELSE IF streamable THEN StreamRequest(mlist, run) ELSE BatchRequest(mlist, run)

\* The record of the handler that ran last.
Handled(handler, text, mlist, turn) ==
    [handler |-> handler, text |-> text, messages |-> mlist, turn |-> turn,
     db |-> Len(ui.db), published |-> Len(ui.published), invoked |-> Len(ui.invoked)]

NotHandled ==
    [handler |-> "none", text |-> <<>>, messages |-> <<>>, turn |-> NoTurn,
     db |-> 0, published |-> 0, invoked |-> 0]

UiCanStep == ui.phase = "ready" /\ ui.steps < MaxSubmits

\* MessageInputController.send_message, reached from the text field's
\* on_submit and from the send button.
SendMessage ==
    /\ UiCanStep
    /\ \E text \in UiTexts :
          LET msg == UiMsg(USER_NAME, text)
              event == Published("SUBMIT_MESSAGE", <<msg>>)
          IN  ui' = [ui EXCEPT !.steps = @ + 1,
                               !.db = Append(@, msg),
                               !.published = Append(@, event),
                               !.queue = Append(@, event),
                               !.last = Handled("send_message", text, <<msg>>, NoTurn)]
    /\ UNCHANGED <<agentVars, mcp, fmt, loc, otherVars>>

\* FileLoaderController.append_file_content_to_chatlist: every kind of file
\* becomes one or more App messages (a PDF read by OCR adds one per image).
AppendFileContentToChatlist ==
    /\ UiCanStep
    /\ \E n \in 1..2 :
          LET msgs == [i \in 1..n |-> UiMsg(APP_ROLE_NAME, <<"f">>)]
              start == Published("START_SUBMISSION", <<>>)
              event == Published("SUBMIT_MESSAGE", msgs)
          IN  ui' = [ui EXCEPT !.steps = @ + 1,
                               !.db = @ \o msgs,
                               !.published = @ \o <<start, event>>,
                               !.queue = @ \o <<start, event>>,
                               !.last = Handled("append_file", <<>>, msgs, NoTurn)]
    /\ UNCHANGED <<agentVars, mcp, fmt, loc, otherVars>>

\* _ChatMessageList.in_progress_state, the START_SUBMISSION subscriber.
InProgressState ==
    /\ ui.phase = "ready"
    /\ Len(ui.queue) > 0 /\ Head(ui.queue).topic = "START_SUBMISSION"
    /\ ui' = [ui EXCEPT !.queue = Tail(@),
                        !.controls = Append(@, InprogressMessage),
                        !.last = Handled("in_progress_state", <<>>, <<>>, NoTurn)]
    /\ UNCHANGED <<agentVars, mcp, fmt, loc, otherVars>>

\* _ChatMessageList.append_new_message_to_list, the SUBMIT_MESSAGE subscriber,
\* with the ChatDisplayController.get_agent_response it drives.
AppendNewMessageToList ==
    /\ ui.phase = "ready"
    /\ Len(ui.queue) > 0 /\ Head(ui.queue).topic = "SUBMIT_MESSAGE"
    /\ \E run \in AgentRuns :
          LET payload == Head(ui.queue).payload
              c == ui.controls
              popped == IF Len(c) > 0 /\ c[Len(c)].inprogress
                           THEN SubSeq(c, 1, Len(c) - 1) ELSE c
              extended == popped \o [i \in 1..Len(payload) |-> ChatMessage(payload[i])]
              mlist == ControlMessages(extended)
              turn == GetAgentResponse(mlist, run, ui.streamable)
          IN  IF extended[Len(extended)].message.role = APP_ROLE_NAME
              THEN /\ run = [chunks |-> 0, raises |-> FALSE]
                   /\ ui' = [ui EXCEPT !.queue = Tail(@),
                                       !.controls = extended,
                                       !.last = Handled("append_new_message_to_list",
                                                        <<>>, payload, NoTurn)]
              ELSE ui' = [ui EXCEPT
                            !.queue = Tail(@),
                            !.controls =
                               IF Len(turn.yielded) = 0
                                  THEN Append(extended, InprogressMessage)
                                  ELSE Append(extended,
                                              ChatMessage(turn.yielded[Len(turn.yielded)])),
                            !.invoked = @ \o turn.invoked,
                            !.db = @ \o turn.persisted,
                            !.published = IF turn.raised THEN @
                                          ELSE Append(@, Published("UPDATE_CHAT", <<>>)),
                            !.last = Handled("append_new_message_to_list",
                                             <<>>, mlist, turn)]
    /\ UNCHANGED <<agentVars, mcp, fmt, loc, otherVars>>

\* ChatDisplayController.get_agent_response called with a message list of
\* the caller's choosing and iterated to the end.
GetAgentResponseCall ==
    /\ UiCanStep
    /\ \E mlist \in UiLists, run \in AgentRuns :
          LET turn == GetAgentResponse(mlist, run, ui.streamable)
          IN  /\ (turn.invoked = <<>> => run = [chunks |-> 0, raises |-> FALSE])
              /\ ui' = [ui EXCEPT !.steps = @ + 1,
                                  !.invoked = @ \o turn.invoked,
                                  !.db = @ \o turn.persisted,
                                  !.last = Handled("get_agent_response", <<>>, mlist, turn)]
    /\ UNCHANGED <<agentVars, mcp, fmt, loc, otherVars>>

\* AgentController.recieve_message, the REQUEST_TO_AGENT subscriber.
RecieveMessage ==
    /\ UiCanStep
    /\ \E mlist \in UiLists, run \in AgentRuns :
          LET turn == RecieveMessageTurn(mlist, run, ui.streamable)
          IN  /\ (turn.invoked = <<>> => run = [chunks |-> 0, raises |-> FALSE])
              /\ ui' = [ui EXCEPT !.steps = @ + 1,
                                  !.invoked = @ \o turn.invoked,
                                  !.published = @ \o turn.published,
                                  !.db = @ \o turn.persisted,
                                  !.last = Handled("recieve_message", <<>>, mlist, turn)]
    /\ UNCHANGED <<agentVars, mcp, fmt, loc, otherVars>>

\* UserMessage.on_submit_func of components/chat_space: the older text field,
\* which persists, republishes and asks the agent inside one handler.
UserMessageOnSubmit ==
    /\ UiCanStep
    /\ \E value \in UiTexts, run \in AgentRuns :
          LET user_message == UiMsg(USER_NAME, value)
              agent_message == UiMsg("Agent", ChunkText(run.chunks))
              answered == ~run.raises /\ run.chunks > 0
              turn == Turn(<<Invoked("get_response", Append(ui.chat_history, user_message))>>,
                           <<>>,
                           IF answered THEN <<Published("chat_history", <<>>)>> ELSE <<>>,
                           IF answered THEN <<agent_message>> ELSE <<>>,
                           run.raises)
          IN  IF value = <<>>
              THEN /\ run = [chunks |-> 0, raises |-> FALSE]
                   /\ ui' = [ui EXCEPT !.steps = @ + 1,
                                       !.last = Handled("on_submit_func", value, <<>>, NoTurn)]
              ELSE ui' = [ui EXCEPT
                            !.steps = @ + 1,
                            !.db = Append(@, user_message) \o turn.persisted,
                            !.chat_history = Append(@, user_message) \o turn.persisted,
                            !.published = Append(@, Published("chat_history", <<>>))
                                             \o turn.published,
                            !.invoked = @ \o turn.invoked,
                            !.last = Handled("on_submit_func", value, <<user_message>>, turn)]
    /\ UNCHANGED <<agentVars, mcp, fmt, loc, otherVars>>

\* The model enumerations of agents/*.py, by value.
OpenAIModel == {"gpt-4o-mini", "gpt-4o", "o1", "o3-mini", "gpt-4.5-preview"}
GeminiModel == {"gemini-2.0-flash-lite", "gemini-2.0-flash",
                "gemini-2.5-flash-preview-04-17", "gemini-2.5-pro-exp-03-25"}
ClaudeModel == {"claude-3-5-haiku-latest", "claude-3-7-sonnet-latest"}
DeepSeekModel == {"deepseek-chat", "deepseek-reasoner"}
LocalModel == {"microsoft/Phi-4-mini-instruct"}
MLXModel == {"mlx-community/Qwen3-30B-A3B-4bit"}
DummyModel == {"Dummy"}

all_models ==
    OpenAIModel \cup GeminiModel \cup ClaudeModel \cup DeepSeekModel
       \cup LocalModel \cup MLXModel \cup DummyModel

\* agent_config.MODELS, in order.
MODELS ==
    << [org |-> "OpenAI", model_name |-> "gpt-4o-mini"],
       [org |-> "OpenAI", model_name |-> "gpt-4o"],
       [org |-> "OpenAI", model_name |-> "o1-mini"],
       [org |-> "OpenAI", model_name |-> "o1-preview"],
       [org |-> "Google", model_name |-> "gemini-1.5-flash"],
       [org |-> "DeepSeek", model_name |-> "deepseek-chat"],
       [org |-> "DeepSeek", model_name |-> "deepseek-reasoner"],
       [org |-> "Dummy", model_name |-> "Dummy"] >>

\* What a factory call came to: the agent class built, or the exception raised.
MadeAgent(class, model) ==
    [called |-> TRUE, raised |-> FALSE, exc |-> "", class |-> class, model |-> model]

FactoryRaise(exc, model) ==
    [called |-> TRUE, raised |-> TRUE, exc |-> exc, class |-> "none", model |-> model]

NothingMade ==
    [called |-> FALSE, raised |-> FALSE, exc |-> "", class |-> "none", model |-> ""]

\* A factory that answers an unknown identifier with the default provider's agent.
GetAgentByModelWithDefault(model) ==
    IF model \in GeminiModel THEN MadeAgent("GeminiAgent", model)
    ELSE IF model \in ClaudeModel THEN MadeAgent("ClaudeAgent", model)
    ELSE MadeAgent("OpenAIAgent", model)

\* agents.get_agent_by_model: membership in each enumeration in turn, by value
\* (a plain string that is no member's value is in none of them).
GetAgentByModel(model) ==
    IF model \in OpenAIModel THEN MadeAgent("OpenAIAgent", model)
    ELSE IF model \in GeminiModel THEN MadeAgent("GeminiAgent", model)
    ELSE IF model \in ClaudeModel THEN MadeAgent("ClaudeAgent", model)
    ELSE IF model \in DeepSeekModel THEN MadeAgent("DeepSeekAgent", model)
    ELSE IF model \in LocalModel THEN MadeAgent("LocalAgent", model)
    ELSE IF model \in MLXModel THEN MadeAgent("MLXAgent", model)
    ELSE IF model \in DummyModel THEN MadeAgent("DummyAgent", model)
    ELSE FactoryRaise("ValueError", model)

\* agent_config.model_agent_mapping: first entry of MODELS with the name,
\* then a match on its org.
ModelAgentMapping(model_name) ==
    LET hits == { i \in 1..Len(MODELS) : MODELS[i].model_name = model_name }
    IN  IF hits = {}
        THEN FactoryRaise("ValueError", model_name)
        ELSE LET model == MODELS[CHOOSE i \in hits : \A j \in hits : i <= j]
             IN  CASE model.org = "OpenAI" -> MadeAgent("OpenAIAgent", model_name)
                   [] model.org = "DeepSeek" -> MadeAgent("DeepSeekAgent", model_name)
                   [] model.org = "Dummy" -> MadeAgent("DummyAgent", model_name)
                   [] OTHER -> FactoryRaise("ValueError", model_name)

ModelNames == { MODELS[i].model_name : i \in 1..Len(MODELS) }

\* One identifier for each branch of either factory, and some that no
\* enumeration and no MODELS entry holds.
ModelIdentifiers ==
    {"gpt-4o", "gemini-2.0-flash", "claude-3-7-sonnet-latest", "deepseek-chat",
     "microsoft/Phi-4-mini-instruct", "mlx-community/Qwen3-30B-A3B-4bit", "Dummy",
     "o1-mini", "gemini-1.5-flash", "", "gpt-5", "GPT-4O"}

\* A call of get_agent_by_model.
GetAgentByModelCall ==
    /\ UiCanStep
    /\ \E model \in ModelIdentifiers :
          ui' = [ui EXCEPT !.steps = @ + 1,
                           !.made = [GetAgentByModel(model) EXCEPT !.called = TRUE],
                           !.factory = "get_agent_by_model"]
    /\ UNCHANGED <<agentVars, mcp, fmt, loc, otherVars>>

\* The older ModelSelector.on_change_func: model_agent_mapping; ui.made is
\* what the session's agent is set to, or the exception that escaped.
ModelAgentMappingCall ==
    /\ UiCanStep
    /\ \E model_name \in ModelIdentifiers :
          ui' = [ui EXCEPT !.steps = @ + 1,
                           !.made = ModelAgentMapping(model_name),
                           !.factory = "model_agent_mapping"]
    /\ UNCHANGED <<agentVars, mcp, fmt, loc, otherVars>>

NewPage(streamable) ==
    [phase |-> "ready", streamable |-> streamable, controls |-> <<>>, db |-> <<>>,
     chat_history |-> <<>>, published |-> <<>>, invoked |-> <<>>, queue |-> <<>>,
     steps |-> 0, last |-> NotHandled, made |-> NothingMade, factory |-> "none"]

InitUi ==
    /\ agent = "none" /\ op = "none" /\ pc = "idle"
    /\ history = <<>> /\ messages = <<>> /\ final_text_parts = <<>>
    /\ call_count = 0
    /\ response = [content |-> <<>>, tool_calls |-> <<>>, finish_reason |-> "none"]
    /\ ret = NoRet /\ yielded = <<>> /\ events = <<>>
    /\ issued = 0 /\ variety = 0 /\ strm = StrmIdle
    /\ mcp = McpIdle
    /\ ui \in { NewPage(streamable) : streamable \in BOOLEAN }
    /\ fmt = FmtIdle
    /\ loc = LocIdle
    /\ conn = 0
    /\ OthersIdle

NextUi ==
    \/ SendMessage
    \/ AppendFileContentToChatlist
    \/ InProgressState
    \/ AppendNewMessageToList
    \/ GetAgentResponseCall
    \/ RecieveMessage
    \/ UserMessageOnSubmit
    \/ GetAgentByModelCall
    \/ ModelAgentMappingCall

SpecUi == InitUi /\ [][NextUi]_vars

----------------------------------------------------------------------------
(***************************************************************************)
(* Claims about the chat page.                                             *)
(***************************************************************************)
ControllerHandlers == {"recieve_message", "get_agent_response", "append_new_message_to_list"}

LastAuthor == ui.last.messages[Len(ui.last.messages)].role

NothingRecorded ==
    /\ Len(ui.db) = ui.last.db
    /\ Len(ui.published) = ui.last.published
    /\ Len(ui.invoked) = ui.last.invoked

SubmitHandlers == {"send_message", "on_submit_func"}

\* C19: submitting an empty or whitespace-only user message is a no-op: the
\* submit handler persisted no message, published no event and triggered no
\* agent turn.
C19_BlankSubmitIsNoOp ==
    (/\ ui.phase = "ready"
     /\ ui.last.handler \in SubmitHandlers
     /\ Strip(ui.last.text) = <<>>) => NothingRecorded

\* The identifiers the factory that ran last knows: the members of the model
\* enumerations for get_agent_by_model, the names in MODELS for
\* model_agent_mapping.
KnownIdentifiers ==
    IF ui.factory = "get_agent_by_model" THEN all_models ELSE ModelNames

\* C20: an agent factory called with a model identifier outside its known
\* set raises an error and returns no agent; it never falls back to a
\* default provider.
C20_UnknownModelRaises ==
    (/\ ui.phase = "ready"
     /\ ui.made.called
     /\ ui.made.model \notin KnownIdentifiers) =>
        (ui.made.raised /\ ui.made.class = "none")

\* get_agent_by_model has been called with "gpt-5", which no enumeration
\* holds, and has raised ValueError.
C20_Witness ==
    /\ ui.phase = "ready"
    /\ ui.factory = "get_agent_by_model"
    /\ ui.made.called /\ ui.made.model = "gpt-5"
    /\ ui.made.model \notin KnownIdentifiers
    /\ ui.made.raised /\ ui.made.exc = "ValueError"

\* The provider an agent class belongs to.
ProviderOfClass(class) ==
    CASE class = "OpenAIAgent" -> "OpenAI"
      [] class = "GeminiAgent" -> "Google"
      [] class = "ClaudeAgent" -> "Anthropic"
      [] class = "DeepSeekAgent" -> "DeepSeek"
      [] class = "LocalAgent" -> "Local"
      [] class = "MLXAgent" -> "MLX"
      [] class = "DummyAgent" -> "Dummy"
      [] OTHER -> "none"

\* The provider that owns an identifier of the factory that ran last: the
\* enumeration holding it, or the org of its MODELS entry.
OwnerOf(model) ==
    IF ui.factory = "get_agent_by_model"
    THEN CASE model \in OpenAIModel -> "OpenAI"
           [] model \in GeminiModel -> "Google"
           [] model \in ClaudeModel -> "Anthropic"
           [] model \in DeepSeekModel -> "DeepSeek"
           [] model \in LocalModel -> "Local"
           [] model \in MLXModel -> "MLX"
           [] model \in DummyModel -> "Dummy"
           [] OTHER -> "none"
    ELSE LET hits == { i \in 1..Len(MODELS) : MODELS[i].model_name = model }
         IN  IF hits = {} THEN "none" ELSE MODELS[CHOOSE i \in hits : TRUE].org

\* C21: an agent factory called with an identifier of its known set (a member
\* of all_models for get_agent_by_model, an entry of MODELS for
\* model_agent_mapping) does not raise and returns an agent of the provider
\* that owns the identifier.
C21_FactoryTotalOnKnownSet ==
    (/\ ui.phase = "ready"
     /\ ui.made.called
     /\ ui.made.model \in KnownIdentifiers) =>
        (~ui.made.raised /\ ProviderOfClass(ui.made.class) = OwnerOf(ui.made.model))

----------------------------------------------------------------------------
(***************************************************************************)
(* The tool format adapters of agents/mcp_tools (mcp_buffer.py, and the    *)
(* same three classes in mcp_handler.py) over the registry's cached tool   *)
(* list.  A JSON schema is a record: type is the value of "type" or        *)
(* "absent"; ap, sch and def say how the keys additionalProperties,        *)
(* $schema and default stand ("absent", "null", "false" or "set"); items   *)
(* is empty or holds the schema under "items"; props.has says whether the  *)
(* key "properties" is there and props.map lists its entries in order.     *)
(* The adapters work on the dict objects the Tool holds, so each operator  *)
(* returns its output together with the descriptor as the call leaves it.  *)
(***************************************************************************)
MaxTools == 2
MaxFormats == 2

Props(has, map) == [has |-> has, map |-> map]

NoProps == Props(FALSE, <<>>)

Schema(type, ap, sch, def, items, props) ==
    [type |-> type, ap |-> ap, sch |-> sch, def |-> def, items |-> items, props |-> props]

\* {}
EmptySchema == Schema("absent", "absent", "absent", "absent", <<>>, NoProps)

\* {"type": "object", "properties": {}}
DefaultSchema == Schema("object", "absent", "absent", "absent", <<>>, Props(TRUE, <<>>))

Property(k, v) == [k |-> k, v |-> v]

\* bool(d) of a dict
Truthy(s) == s # EmptySchema

\* if s.get(key) is not None: s.pop(key)
PopUnlessNone(state) == IF state \in {"absent", "null"} THEN state ELSE "absent"

\* format_schema of GeminiToolFormatter.format
RECURSIVE FormatSchema(_)
FormatSchema(s) ==
    LET items == IF s.items # <<>> /\ Truthy(s.items[1])
                    THEN <<FormatSchema(s.items[1])>> ELSE s.items
        map == IF s.props.has /\ s.props.map # <<>>
                  THEN [i \in 1..Len(s.props.map) |->
                           Property(s.props.map[i].k, FormatSchema(s.props.map[i].v))]
                  ELSE s.props.map
    IN  Schema(s.type, PopUnlessNone(s.ap), PopUnlessNone(s.sch), PopUnlessNone(s.def),
               items, Props(s.props.has, map))

ToolDescriptor(name, inputSchema) == [name |-> name, inputSchema |-> inputSchema]

\* One adapter's work on one descriptor: the formatted entry (name and
\* schema), or the exception, and the descriptor afterwards.
Formatted(name, schema, tool) ==
    [raised |-> FALSE, exc |-> "", name |-> name, schema |-> schema, tool |-> tool]

FormatRaise(exc, tool) ==
    [raised |-> TRUE, exc |-> exc, name |-> <<>>, schema |-> EmptySchema, tool |-> tool]

\* An adapter that formats a copy first and completes the descriptor's own
\* schema afterwards.
OpenAIFormatToolFromCopy(tool) ==
    LET params == IF Truthy(tool.inputSchema) THEN tool.inputSchema ELSE DefaultSchema
        lacks == params.type = "object" /\ ~params.props.has
    IN  Formatted(tool.name, params,
                  IF lacks /\ Truthy(tool.inputSchema)
                     THEN [tool EXCEPT !.inputSchema.props = Props(TRUE, <<>>)]
                     ELSE tool)

\* The loop body of OpenAIToolFormatter.format; ClaudeToolFormatter.format has
\* the same body under the key input_schema.
OpenAIFormatTool(tool) ==
    LET aliased == Truthy(tool.inputSchema)
        params == IF aliased THEN tool.inputSchema ELSE DefaultSchema
        lacks == params.type = "object" /\ ~params.props.has
        completed == IF lacks THEN [params EXCEPT !.props = Props(TRUE, <<>>)] ELSE params
    IN  Formatted(tool.name, completed,
                  IF aliased THEN [tool EXCEPT !.inputSchema = completed] ELSE tool)

ClaudeFormatTool(tool) == OpenAIFormatTool(tool)

\* The loop body of GeminiToolFormatter.format.  "required" is copied as it
\* is and left out here.
GeminiFormatTool(tool) ==
    IF tool.inputSchema.type = "absent"
    THEN FormatRaise("KeyError", tool)
    ELSE LET has == tool.inputSchema.props.has
             map == tool.inputSchema.props.map
             formatted == [i \in 1..Len(map) |-> Property(map[i].k, FormatSchema(map[i].v))]
         IN  Formatted(tool.name,
                       Schema(tool.inputSchema.type, "absent", "absent", "absent", <<>>,
                              Props(TRUE, formatted)),
                       IF has THEN [tool EXCEPT !.inputSchema.props.map = formatted]
                              ELSE tool)

FormatTool(adapter, tool) ==
    CASE adapter = "openai" -> OpenAIFormatTool(tool)
      [] adapter = "claude" -> ClaudeFormatTool(tool)
      [] adapter = "gemini" -> GeminiFormatTool(tool)

\* format(tools): the loop over the list; an exception ends it with the
\* descriptors before it already changed.
RECURSIVE FormatFrom(_, _, _, _)
FormatFrom(adapter, tools, i, acc) ==
    IF i > Len(tools)
    THEN acc
    ELSE LET r == FormatTool(adapter, tools[i])
             after == [acc.tools EXCEPT ![i] = r.tool]
         IN  IF r.raised
             THEN [raised |-> TRUE, exc |-> r.exc, out |-> <<>>, tools |-> after]
             ELSE FormatFrom(adapter, tools, i + 1,
                             [acc EXCEPT !.tools = after,
                                         !.out = Append(@, [name |-> r.name,
                                                            schema |-> r.schema])])

Format(adapter, tools) ==
    FormatFrom(adapter, tools, 1, [raised |-> FALSE, exc |-> "", out |-> <<>>, tools |-> tools])

\* Schemas of the model: leaves, arrays of leaves, and input schemas with
\* at most one property.
LeafSchemas ==
    { Schema("string", "absent", "absent", "absent", <<>>, NoProps),
      Schema("string", "false", "absent", "absent", <<>>, NoProps),
      Schema("string", "absent", "absent", "null", <<>>, NoProps),
      Schema("string", "absent", "set", "set", <<>>, NoProps) }

PropertySchemas ==
    LeafSchemas
       \cup { Schema("array", "absent", "absent", "absent", <<leaf>>, NoProps) :
                 leaf \in LeafSchemas }

InputSchemas ==
    { EmptySchema,
      Schema("object", "absent", "absent", "absent", <<>>, NoProps),
      Schema("object", "absent", "absent", "absent", <<>>, Props(TRUE, <<>>)),
      Schema("absent", "absent", "absent", "absent", <<>>, Props(TRUE, <<>>)),
      Schema("object", "false", "absent", "absent", <<>>,
             Props(TRUE, <<Property("foo", Schema("string", "absent", "absent", "absent",
                                                  <<>>, NoProps))>>)) }
       \cup { Schema("object", "absent", "absent", "absent", <<>>,
                     Props(TRUE, <<Property("foo", p)>>)) : p \in PropertySchemas }

ToolLists ==
    UNION { [1..n -> { ToolDescriptor(<<"files", "__", "read">>, s) : s \in InputSchemas }] :
               n \in 1..MaxTools }

Adapters == {"openai", "claude", "gemini"}

\* One call of an adapter's format with the registry's cached list
\* (McpHandler.tools returns the list itself).
FormatTools ==
    /\ fmt.phase = "ready"
    /\ Len(fmt.log) < MaxFormats
    /\ \E adapter \in Adapters :
          LET r == Format(adapter, fmt.tools)
          IN  fmt' = [fmt EXCEPT
                        !.tools = r.tools,
                        !.log = Append(@, [adapter |-> adapter, before |-> fmt.tools,
                                           after |-> r.tools, raised |-> r.raised,
                                           exc |-> r.exc, out |-> r.out])]
    /\ UNCHANGED <<agentVars, mcp, ui, loc, otherVars>>

InitFmt ==
    /\ agent = "none" /\ op = "none" /\ pc = "idle"
    /\ history = <<>> /\ messages = <<>> /\ final_text_parts = <<>>
    /\ call_count = 0
    /\ response = [content |-> <<>>, tool_calls |-> <<>>, finish_reason |-> "none"]
    /\ ret = NoRet /\ yielded = <<>> /\ events = <<>>
    /\ issued = 0 /\ variety = 0 /\ strm = StrmIdle
    /\ mcp = McpIdle
    /\ ui = UiIdle
    /\ fmt \in { [phase |-> "ready", tools |-> tools, log |-> <<>>] : tools \in ToolLists }
    /\ loc = LocIdle
    /\ conn = 0
    /\ OthersIdle

NextFmt == FormatTools

SpecFmt == InitFmt /\ [][NextFmt]_vars

----------------------------------------------------------------------------
(***************************************************************************)
(* Claims about the tool format adapters.                                  *)
(***************************************************************************)
FormatCalls == IF fmt.phase = "ready" THEN DOMAIN fmt.log ELSE {}

LacksProperties(s) == s = EmptySchema \/ (s.type = "object" /\ ~s.props.has)

\* C22: for every descriptor whose input schema is an object type without
\* a properties key, or is empty, each adapter's output holds a schema for
\* that tool with an empty properties object.
C22_EmptyPropertiesSynthesized ==
    \A c \in FormatCalls :
       \A i \in DOMAIN fmt.log[c].before :
          LacksProperties(fmt.log[c].before[i].inputSchema) =>
             /\ ~fmt.log[c].raised
             /\ fmt.log[c].out[i].schema.props = Props(TRUE, <<>>)

\* The schema, or a schema reached from it through properties or items,
\* has one of the keys additionalProperties, $schema, default.
RECURSIVE HoldsUnsupportedKey(_)
HoldsUnsupportedKey(s) ==
    \/ s.ap # "absent" \/ s.sch # "absent" \/ s.def # "absent"
    \/ \E i \in DOMAIN s.items : HoldsUnsupportedKey(s.items[i])
    \/ \E i \in DOMAIN s.props.map : HoldsUnsupportedKey(s.props.map[i].v)

\* C23: in the output of the Gemini adapter no schema at any nesting depth
\* (through properties or items) has the key additionalProperties, $schema
\* or default, whatever value the key had in the input, false and null
\* included.
C23_GeminiStripsUnsupportedKeys ==
    \A c \in FormatCalls :
       (fmt.log[c].adapter = "gemini" /\ ~fmt.log[c].raised) =>
           \A i \in DOMAIN fmt.log[c].out : ~HoldsUnsupportedKey(fmt.log[c].out[i].schema)

\* C24: an adapter does not modify its input: after format returns or
\* raises, every descriptor of the list passed in, with its input schema,
\* equals what it was before the call.
C24_AdaptersLeaveInputUnchanged ==
    \A c \in FormatCalls : fmt.log[c].after = fmt.log[c].before

\* C25: an adapter called twice in a row on the same descriptor list gives
\* the same outcome both times: the same output, or the same exception.
C25_FormatTwiceSameOutput ==
    \A c \in FormatCalls :
       (c + 1 \in FormatCalls /\ fmt.log[c + 1].adapter = fmt.log[c].adapter) =>
           /\ fmt.log[c + 1].out = fmt.log[c].out
           /\ fmt.log[c + 1].raised = fmt.log[c].raised
           /\ fmt.log[c + 1].exc = fmt.log[c].exc

\* The same adapter has run twice in a row, its first call changed the
\* cached descriptors, and both calls returned the same non-empty output.
C25_Witness ==
    /\ fmt.phase = "ready" /\ Len(fmt.log) = 2
    /\ fmt.log[1].adapter = fmt.log[2].adapter
    /\ fmt.log[1].after # fmt.log[1].before
    /\ ~fmt.log[1].raised /\ fmt.log[1].out # <<>>
    /\ fmt.log[2].out = fmt.log[1].out

----------------------------------------------------------------------------
(***************************************************************************)
(* The agents without image support (DeepSeekAgent, LocalAgent, MLXAgent): *)
(* _construct_request and the request built from it, and LocalAgent's      *)
(* request_streaming, where a generation thread feeds the agent's one      *)
(* TextIteratorStreamer (a queue ended by a stop signal) and the async     *)
(* generator reads it.  loc.inv[i] is the i-th invocation of               *)
(* request_streaming on the same agent.                                    *)
(***************************************************************************)
MaxInvocations == 2
MaxFragments == 2

UserJpeg == Msg("User", USER_AVATAR_COLOR, "jpeg", "img")

LocalHistories ==
    { <<UserText>>, <<UserPng>>, <<UserText, AgentText, UserJpeg>>,
      <<UserText, AgentText, UserText>> }

NativeTurn(role, has_content, content) ==
    [raised |-> FALSE, role |-> role, has_content |-> has_content, content |-> content]

ConstructRaise == [raised |-> TRUE, role |-> "", has_content |-> FALSE, content |-> <<>>]

\* DeepSeekAgent._construct_request
DeepSeekConstructRequest(message) ==
    LET role == IF IsAgentMessage(message) THEN "assistant" ELSE "user"
    IN  CASE message.content_type = "text" -> NativeTurn(role, TRUE, message.system_content)
          [] message.content_type \in {"png", "jpeg"} -> ConstructRaise
          [] OTHER -> NativeTurn(role, FALSE, <<>>)

\* LocalAgent._construct_request; MLXAgent._construct_request is the same text.
LocalConstructRequest(message) ==
    LET role == IF IsAgentMessage(message) THEN "assistant" ELSE "user"
    IN  CASE message.content_type = "text" -> NativeTurn(role, TRUE, message.system_content)
          [] message.content_type \in {"png", "jpeg"} -> NativeTurn(role, FALSE, <<>>)
          [] OTHER -> ConstructRaise

MLXConstructRequest(message) == LocalConstructRequest(message)

ConstructRequestOf(kind, message) ==
    CASE kind = "deepseek" -> DeepSeekConstructRequest(message)
      [] kind = "local" -> LocalConstructRequest(message)
      [] kind = "mlx" -> MLXConstructRequest(message)

\* request_body = [self._construct_request(m) for m in messages]
RequestBody(kind, mlist) == [i \in 1..Len(mlist) |-> ConstructRequestOf(kind, mlist[i])]

BodyRaises(body) == \E i \in DOMAIN body : body[i].raised

\* request of the three agents: the body is built and, unless a conversion
\* raised, handed to the model.  (MLXAgent.request puts the prompts of
\* watch_prompt_call before each turn; none are modelled.)
LocalRequest ==
    /\ loc.phase = "ready"
    /\ loc.ret = NoRet
    /\ LET body == RequestBody(loc.agent, loc.history)
       IN  IF BodyRaises(body)
           THEN loc' = [loc EXCEPT !.ret = Raised(Exc("ValueError", "unsupported content"))]
           ELSE loc' = [loc EXCEPT !.ret = Returned(<<"r">>),
                                   !.sent = Append(@, body)]
    /\ UNCHANGED <<agentVars, mcp, ui, fmt, otherVars>>

Fragment(gen, k) == [stop |-> FALSE, gen |-> gen, k |-> k]

StopSignal(gen) == [stop |-> TRUE, gen |-> gen, k |-> 0]

IdleInvocation ==
    [pc |-> "idle", thread |-> "none", plan |-> 0, produced |-> 0, yielded |-> <<>>]

\* LocalAgent.request_streaming up to thread.start().
LocalStreamingStart(i) ==
    /\ loc.phase = "ready" /\ loc.agent = "local"
    /\ loc.inv[i].pc = "idle"
    /\ \A j \in 1..(i - 1) : loc.inv[j].pc # "idle"
    /\ LET body == RequestBody("local", loc.history)
       IN  IF BodyRaises(body)
           THEN loc' = [loc EXCEPT !.inv[i].pc = "raised"]
           ELSE \E n \in 1..MaxFragments :
                   loc' = [loc EXCEPT !.inv[i].pc = "consuming",
                                      !.inv[i].thread = "running",
                                      !.inv[i].plan = n,
                                      !.sent = Append(@, body)]
    /\ UNCHANGED <<agentVars, mcp, ui, fmt, otherVars>>

\* The generation thread hands its next piece of text to the streamer.
GenerationPut(i) ==
    /\ loc.phase = "ready"
    /\ loc.inv[i].thread = "running"
    /\ loc.inv[i].produced < loc.inv[i].plan
    /\ loc' = [loc EXCEPT !.inv[i].produced = @ + 1,
                          !.queue = Append(@, Fragment(i, loc.inv[i].produced + 1))]
    /\ UNCHANGED <<agentVars, mcp, ui, fmt, otherVars>>

\* The generation ends: the streamer gets the stop signal.
GenerationEnd(i) ==
    /\ loc.phase = "ready"
    /\ loc.inv[i].thread = "running"
    /\ loc.inv[i].produced = loc.inv[i].plan
    /\ loc' = [loc EXCEPT !.inv[i].thread = "ended",
                          !.queue = Append(@, StopSignal(i))]
    /\ UNCHANGED <<agentVars, mcp, ui, fmt, otherVars>>

\* The thread's target returns.
GenerationExit(i) ==
    /\ loc.phase = "ready"
    /\ loc.inv[i].thread = "ended"
    /\ loc' = [loc EXCEPT !.inv[i].thread = "finished"]
    /\ UNCHANGED <<agentVars, mcp, ui, fmt, otherVars>>

\* One turn of "for new_text in self.streamer": the head of the queue is
\* yielded, or it is the stop signal and the loop ends.
StreamerNext(i) ==
    /\ loc.phase = "ready"
    /\ loc.inv[i].pc = "consuming"
    /\ loc.queue # <<>>
    /\ LET value == Head(loc.queue)
       IN  IF value.stop
           THEN loc' = [loc EXCEPT !.queue = Tail(@), !.inv[i].pc = "joining"]
           ELSE loc' = [loc EXCEPT !.queue = Tail(@),
                                   !.inv[i].yielded = Append(@, value)]
    /\ UNCHANGED <<agentVars, mcp, ui, fmt, otherVars>>

\* thread.join() returns and the generator finishes.
ThreadJoin(i) ==
    /\ loc.phase = "ready"
    /\ loc.inv[i].pc = "joining"
    /\ loc.inv[i].thread = "finished"
    /\ loc' = [loc EXCEPT !.inv[i].pc = "done"]
    /\ UNCHANGED <<agentVars, mcp, ui, fmt, otherVars>>

InitLocal ==
    /\ conn = 0
    /\ OthersIdle
    /\ agent = "none" /\ op = "none" /\ pc = "idle"
    /\ history = <<>> /\ messages = <<>> /\ final_text_parts = <<>>
    /\ call_count = 0
    /\ response = [content |-> <<>>, tool_calls |-> <<>>, finish_reason |-> "none"]
    /\ ret = NoRet /\ yielded = <<>> /\ events = <<>>
    /\ issued = 0 /\ variety = 0 /\ strm = StrmIdle
    /\ mcp = McpIdle
    /\ ui = UiIdle
    /\ fmt = FmtIdle
    /\ loc \in { [phase |-> "ready", agent |-> kind, history |-> h, ret |-> NoRet,
                  sent |-> <<>>, queue |-> <<>>,
                  inv |-> [i \in 1..MaxInvocations |-> IdleInvocation]] :
                    kind \in {"deepseek", "local", "mlx"}, h \in LocalHistories }

NextLocal ==
    \/ LocalRequest
    \/ \E i \in 1..MaxInvocations :
          \/ LocalStreamingStart(i)
          \/ GenerationPut(i)
          \/ GenerationEnd(i)
          \/ GenerationExit(i)
          \/ StreamerNext(i)
          \/ ThreadJoin(i)

SpecLocal == InitLocal /\ [][NextLocal]_vars

----------------------------------------------------------------------------
(***************************************************************************)
(* Claims about the agents without image support.                          *)
(***************************************************************************)
HasImage(mlist) == \E i \in DOMAIN mlist : mlist[i].content_type \in {"png", "jpeg"}

\* C26: for DeepSeekAgent, LocalAgent and MLXAgent a conversation holding a
\* PNG or JPEG message makes the conversion raise: no native request is
\* handed to the model for it, request does not return a value and
\* request_streaming starts no generation.
C26_ImageContentRaises ==
    (loc.phase = "ready" /\ HasImage(loc.history)) =>
        /\ loc.sent = <<>>
        /\ loc.ret.kind # "return"
        /\ \A i \in DOMAIN loc.inv : loc.inv[i].pc \in {"idle", "raised"}

Invocations == IF loc.phase = "ready" THEN DOMAIN loc.inv ELSE {}

\* C28: every invocation of LocalAgent.request_streaming has yielded the
\* fragments of its own generation thread in the order produced, none lost
\* and none duplicated, takes no fragment of another invocation's
\* generation, and is finished only after its generation thread has
\* finished; also when two invocations on the same agent overlap.
C28_StreamerOrderPreserved ==
    \A i \in Invocations :
       /\ \A k \in DOMAIN loc.inv[i].yielded : loc.inv[i].yielded[k] = Fragment(i, k)
       /\ loc.inv[i].pc \in {"joining", "done"} => Len(loc.inv[i].yielded) = loc.inv[i].plan
       /\ loc.inv[i].pc = "done" => loc.inv[i].thread = "finished"

----------------------------------------------------------------------------
(* Tool calls of one round and the native message list                     *)

\* the positions of the log where a tool call is directly followed by the
\* next tool call of the same round (no provider call or response between)
SameRoundPairs ==
    {j \in 1..(Len(events) - 1) : events[j].e = "tool" /\ events[j + 1].e = "tool"}

\* C27: within one round of request or of a stream continuation, a tool call
\* starts only after the result of the tool call before it has been appended
\* to the native message list: the list is longer when the later call starts
\* than it was when the earlier call started.
C27_ToolResultFoldedBeforeNextCall ==
    \A j \in SameRoundPairs : events[j + 1].n > events[j].n

----------------------------------------------------------------------------
(* Tool-server connections                                                 *)

\* the connections an invocation holds while it runs: OpenAIAgent and
\* ClaudeAgent keep the one they enter at the start, GeminiAgent connects
\* inside McpHandler.call_tool only
HeldWhileRunning ==
    IF agent \in {"openai", "claude"} /\ pc # "init" THEN 1 ELSE 0

----------------------------------------------------------------------------
(* Tool calls and tool results in the native message list                  *)

\* the blocks of a native message that can hold tool calls or tool results
NativeBlocks(m) ==
    IF agent = "claude" THEN m.content
    ELSE IF agent = "gemini" THEN m.parts
    ELSE <<>>

\* the call ids of the tool-call records of a native message, in order
CallIds(m) ==
    IF agent = "openai"
    THEN [j \in 1..Len(m.tool_calls) |-> m.tool_calls[j].id]
    ELSE LET uses == SelectSeq(NativeBlocks(m),
                               LAMBDA b : b.type \in {"tool_use", "function_call"})
         IN  [j \in 1..Len(uses) |-> uses[j].id]

\* the call ids the tool-result entries of a native message carry, in order
ResultIds(m) ==
    IF agent = "openai"
    THEN IF m.role = "tool" THEN <<m.tool_call_id>> ELSE <<>>
    ELSE LET results == SelectSeq(NativeBlocks(m),
                                  LAMBDA b : b.type \in {"tool_result", "function_response"})
         IN  [j \in 1..Len(results) |-> results[j].id]

\* the tool-result entries behind position k that carry call id c
ResultsBehind(sent, k, c) ==
    {<<k2, j>> \in ((k + 1)..Len(sent)) \X (1..MaxToolCalls + 1) :
        j \in DOMAIN ResultIds(sent[k2]) /\ ResultIds(sent[k2])[j] = c}

WellFormedToolCalls(sent) ==
    /\ \A k \in 1..Len(sent) : \A j \in DOMAIN CallIds(sent[k]) :
          Cardinality(ResultsBehind(sent, k, CallIds(sent[k])[j])) = 1
    /\ \A k \in 1..Len(sent) : \A j \in DOMAIN ResultIds(sent[k]) :
          \E k1 \in 1..(k - 1) : \E j1 \in DOMAIN CallIds(sent[k1]) :
             CallIds(sent[k1])[j1] = ResultIds(sent[k])[j]

\* the native message list is only ever appended to, so the list a provider
\* call was made with is the prefix of that length
SentAt(i) == SubSeq(messages, 1, events[i].n)

ProviderCallPositions == {i \in 1..Len(events) : events[i].e = "provider"}

\* C30: at every provider call of request and request_streaming the native
\* message list sent is well-formed: every tool-call record in it is followed
\* by exactly one tool-result entry with the same call id, and every
\* tool-result entry refers to an earlier tool-call record.
C30_SentToolCallsWellFormed ==
    \A i \in ProviderCallPositions : WellFormedToolCalls(SentAt(i))

C30_PrefixKept ==
    \A i \in ProviderCallPositions : events[i].n <= Len(messages)

----------------------------------------------------------------------------
(* The round limit of request                                              *)

\* request has left its loop because the round counter reached the limit
RoundLimitExit ==
    op = "request" /\ pc = "done" /\ call_count >= MAX_REQUEST_COUNT

\* the text parts the provider sent during the invocation
TextPartsReceived ==
    LET RECURSIVE Sum(_)
        Sum(k) == IF k = 0 THEN 0
                  ELSE Sum(k - 1) + (IF events[k].e = "response" THEN events[k].n ELSE 0)
    IN  Sum(Len(events))

\* the text parts of the provider (each is the token "a") a string holds
TextPartsIn(v) == Cardinality({i \in 1..Len(v) : v[i] = "a"})

\* C31: when request ends because the round limit was reached, it has not
\* raised, and the string it returns holds the text of every response the
\* provider sent during the invocation, the response to the last tool result
\* included.
C31_RoundLimitKeepsAllText ==
    RoundLimitExit =>
        /\ ret.kind = "return"
        /\ TextPartsIn(ret.value) = TextPartsReceived

----------------------------------------------------------------------------
(* A tool-use signal without a tool call                                   *)

\* OpenAIAgent.request has just received a response whose finish_reason is
\* "tool_calls" and which holds no tool call
OpenAISignalWithoutCall ==
    /\ agent = "openai" /\ op = "request" /\ pc = "loop"
    /\ Len(events') > Len(events) /\ events'[Len(events')].e = "response"
    /\ response'.finish_reason = "tool_calls" /\ response'.tool_calls = <<>>

\* ClaudeAgent.request is about to process a response whose stop_reason is
\* "tool_use" and which holds no tool_use block
ClaudeSignalWithoutCall ==
    /\ agent = "claude" /\ op = "request" /\ pc = "loop"
    /\ response.stop_reason = "tool_use" /\ ToolUses(response.content) = <<>>

\* _continue_stream of OpenAIAgent is at the chunk that carries finish_reason
\* "tool_calls" and no tool call was streamed
OpenAIStreamSignalWithoutCall ==
    /\ agent = "openai" /\ op = "request_streaming" /\ pc = "stream"
    /\ strm.stage = "finish"
    /\ strm.plan.finish_reason = "tool_calls" /\ strm.current_tool_calls = <<>>

\* C32: when a response signals tool use as its stop or finish reason and
\* holds no tool call, request and request_streaming leave the round loop
\* with the step that handles it, and make no further provider call.
C32_ToolSignalWithoutCallExits ==
    [][ /\ OpenAISignalWithoutCall => pc' = "done"
        /\ ClaudeSignalWithoutCall => pc' = "done" /\ ProviderCalls' = ProviderCalls
        /\ OpenAIStreamSignalWithoutCall => pc' = "done" /\ ProviderCalls' = ProviderCalls
      ]_vars

----------------------------------------------------------------------------
(* Truncated responses                                                     *)

\* the texts of the agents that tell the reader the response was cut short
TruncationNotices == {"\n[Warning: Response truncated due to length limit]"}

HasTruncationNotice(v) == \E i \in 1..Len(v) : v[i] \in TruncationNotices

\* the fragments of a stream are sequences of tokens
StreamHasTruncationNotice ==
    \E k \in 1..Len(yielded) : HasTruncationNotice(yielded[k])

\* request has ended on a response the provider cut at the token limit
RequestEndedTruncated ==
    /\ op = "request" /\ pc = "done" /\ ret.kind = "return"
    /\ events # <<>> /\ events[Len(events)].e = "response"
    /\ \/ agent = "openai" /\ response.finish_reason = "length"
       \/ agent = "claude" /\ response.stop_reason = "max_tokens"
                           /\ call_count < MAX_REQUEST_COUNT

\* C33: when the provider ends a response with the length / max_tokens
\* signal, the round loop is left and the output notes the truncation: the
\* string request returns holds a truncation notice.
C33_TruncationNoted ==
    RequestEndedTruncated => HasTruncationNotice(ret.value)

\* the same for the fragments of OpenAIAgent.request_streaming: the step
\* that handles finish_reason "length" ends the stream with the notice
C33_StreamTruncationNoted ==
    [][ (/\ agent = "openai" /\ op = "request_streaming" /\ pc = "stream"
         /\ strm.stage = "finish" /\ strm.plan.finish_reason = "length"
         /\ Len(events') > Len(events))
        => (pc' = "done" /\ HasTruncationNotice(yielded'[Len(yielded')])) ]_vars

----------------------------------------------------------------------------
(* AgentController: recieve_message, stream_request and batch_request, one *)
(* loop iteration at a time.                                               *)
(*                                                                         *)
(* controller.stream is what the agent's request_streaming will yield (for *)
(* an agent that is not streamable, its concatenation is what request      *)
(* returns); controller.uuids counts the ids uuid4 has handed out.         *)

MaxCtlFragments == 3

\* a fragment is a non-empty piece of text
CtlChunks == { <<"x">>, <<"y", "z">> }

CtlStreams == UNION { [1..n -> CtlChunks] : n \in 0..MaxCtlFragments }

\* Message.construct_auto(chat_id, text, role) with the next uuid
ConstructAuto(uuids, text, role) ==
    [id |-> uuids + 1, display_content |-> text, system_content |-> text,
     content_type |-> "text", role |-> role]

NoMessage == [id |-> 0, display_content |-> <<>>, system_content |-> <<>>,
              content_type |-> "text", role |-> ""]

\* response += chunk
AccumulateLast(text, chunk) == chunk
Accumulate(text, chunk) == text \o chunk

\* the topic of the event stream_request publishes in iteration i
StreamTopic(i) == IF i = 0 THEN "APPEND_MESSAGE" ELSE "UPDATE_MESSAGE_STREAMLY"

NewTurn(mlist, streamable, stream) ==
    [phase |-> "new", messages |-> mlist, streamable |-> streamable, stream |-> stream,
     i |-> 0, response |-> <<>>, bound |-> FALSE, response_message |-> NoMessage,
     uuids |-> 0, published |-> <<>>, returned |-> NoMessage, persisted |-> <<>>,
     exc |-> ""]

\* recieve_message up to the call of request_func; batch_request runs whole
ControllerRecieveMessage ==
    /\ controller.phase = "new"
    /\ LET mlist == controller.messages
           text == Flatten(controller.stream)
           response_message == ConstructAuto(controller.uuids, text, AgentRoleName)
       IN  controller' =
             IF mlist[Len(mlist)].role # USER_NAME
             THEN [controller EXCEPT !.phase = "ignored"]
             ELSE IF controller.streamable
             THEN [controller EXCEPT !.phase = "streaming"]
             ELSE [controller EXCEPT
                     !.phase = "done",
                     !.response = text,
                     !.bound = TRUE,
                     !.response_message = response_message,
                     !.uuids = @ + 1,
                     !.published = Append(@, Published("APPEND_MESSAGE", response_message)),
                     !.returned = response_message,
                     !.persisted = Append(@, response_message)]
    /\ UNCHANGED <<agentVars, mcp, ui, fmt, loc, mlx, db>>

\* one iteration of the async for loop of stream_request
StreamRequestChunk ==
    /\ controller.phase = "streaming"
    /\ controller.i < Len(controller.stream)
    /\ LET chunk == controller.stream[controller.i + 1]
           text == Accumulate(controller.response, chunk)
           response_message == ConstructAuto(controller.uuids, text, AgentRoleName)
       IN  controller' = [controller EXCEPT
                            !.response = text,
                            !.bound = TRUE,
                            !.response_message = response_message,
                            !.uuids = @ + 1,
                            !.published = Append(@, Published(StreamTopic(controller.i),
                                                              response_message)),
                            !.i = @ + 1]
    /\ UNCHANGED <<agentVars, mcp, ui, fmt, loc, mlx, db>>

\* the stream is exhausted: return response_message, which is a local that
\* only the loop body binds, and response_message.insert_into_db() in
\* recieve_message
StreamRequestReturn ==
    /\ controller.phase = "streaming"
    /\ controller.i = Len(controller.stream)
    /\ controller' =
          IF controller.bound
          THEN [controller EXCEPT !.phase = "done",
                                  !.returned = controller.response_message,
                                  !.persisted = Append(@, controller.response_message)]
          ELSE [controller EXCEPT !.phase = "failed", !.exc = "UnboundLocalError"]
    /\ UNCHANGED <<agentVars, mcp, ui, fmt, loc, mlx, db>>

InitCtl ==
    /\ agent = "none" /\ op = "none" /\ pc = "idle"
    /\ history = <<>> /\ messages = <<>> /\ final_text_parts = <<>>
    /\ call_count = 0
    /\ response = [content |-> <<>>, tool_calls |-> <<>>, finish_reason |-> "none"]
    /\ ret = NoRet /\ yielded = <<>> /\ events = <<>>
    /\ issued = 0 /\ variety = 0 /\ strm = StrmIdle
    /\ conn = 0
    /\ mcp = McpIdle /\ ui = UiIdle /\ fmt = FmtIdle /\ loc = LocIdle
    /\ mlx = MlxIdle /\ db = DbIdle
    /\ controller \in { NewTurn(mlist, streamable, stream) :
                           mlist \in UiLists, streamable \in BOOLEAN, stream \in CtlStreams }

NextCtl ==
    \/ ControllerRecieveMessage
    \/ StreamRequestChunk
    \/ StreamRequestReturn

SpecCtl == InitCtl /\ [][NextCtl]_vars

\* the concatenation of the first k fragments of the stream
FragmentsUpTo(k) == Flatten(SubSeq(controller.stream, 1, k))

StreamTurn == controller.phase \in {"streaming", "done", "failed"} /\ controller.streamable

\* C34: stream_request, for a stream of n >= 1 fragments, publishes exactly n
\* events in fragment order, the first on APPEND_MESSAGE and the later ones
\* on UPDATE_MESSAGE_STREAMLY; the message of the k-th event is a newly
\* constructed Message whose content is the concatenation of fragments 1..k,
\* and the Message returned is the one of the n-th event.
C34_StreamPublishesAccumulatedMessages ==
    (StreamTurn /\ Len(controller.stream) >= 1) =>
        /\ Len(controller.published) = controller.i
        /\ \A k \in 1..Len(controller.published) :
              LET ev == controller.published[k]
              IN  /\ ev.topic = (IF k = 1 THEN "APPEND_MESSAGE" ELSE "UPDATE_MESSAGE_STREAMLY")
                  /\ ev.payload.display_content = FragmentsUpTo(k)
                  /\ ev.payload.system_content = FragmentsUpTo(k)
                  /\ \A j \in 1..(k - 1) : controller.published[j].payload.id # ev.payload.id
        /\ controller.phase = "done" =>
              /\ Len(controller.published) = Len(controller.stream)
              /\ controller.returned = controller.published[Len(controller.stream)].payload

\* a stream of three fragments has been published and returned
C34_Witness ==
    /\ controller.phase = "done" /\ controller.streamable
    /\ Len(controller.stream) = 3 /\ Len(controller.published) = 3
    /\ controller.stream[1] # controller.stream[2]
    /\ controller.returned.display_content = Flatten(controller.stream)

\* the agent turn recieve_message started has come to its end
TurnEnded ==
    /\ controller.phase \in {"done", "failed"}
    /\ controller.messages[Len(controller.messages)].role = USER_NAME

\* C35: every agent turn started by recieve_message ends with exactly one
\* response message persisted and without an exception, also when the
\* agent's stream yields no fragment at all.
C35_TurnPersistsOneResponse ==
    TurnEnded => (controller.phase = "done" /\ Len(controller.persisted) = 1)

----------------------------------------------------------------------------
(* The text GeminiAgent.request_streaming yields                           *)

\* the text parts of the provider held by the fragments yielded so far
TextPartsYielded ==
    LET RECURSIVE Sum(_)
        Sum(k) == IF k = 0 THEN 0 ELSE Sum(k - 1) + TextPartsIn(yielded[k])
    IN  Sum(Len(yielded))

\* C36: GeminiAgent.request_streaming yields every text part received from
\* the provider exactly once: a chunk with several text parts does not have
\* its text yielded more than once, and a chunk that mixes a tool call with
\* text yields the text once.
C36_GeminiYieldsEachTextOnce ==
    (agent = "gemini" /\ op = "request_streaming" /\ ret.kind # "raise") =>
        TextPartsYielded = TextPartsReceived

----------------------------------------------------------------------------
(* The arguments McpHandler.call_tool hands to the server session          *)

\* the arguments are a mapping, as they are or once parsed as JSON
IsMapping(args) ==
    \/ args.type = "dict"
    \/ args.type = "str" /\ JsonLoads(args.text).ok /\ JsonLoads(args.text).t = "dict"

\* call_tool of the registry that keeps sessions has found the session of
\* the server of the call
SessionsCallRouted ==
    /\ mcp.phase = "ready" /\ mcp.impl = "sessions" /\ mcp.last.called
    /\ HasToken(mcp.last.name, "/")
    /\ \E k \in 1..Len(mcp.sessions) : mcp.sessions[k] = SplitFirst(mcp.last.name, "/")[1]

\* C37: McpHandler.call_tool calls the session's call_tool only with a
\* mapping as arguments; arguments that are not a mapping once parsed
\* (invalid JSON, or valid JSON that is a number, a list or a string) give a
\* result with is_error = true and the server is not contacted.
C37_OnlyMappingsReachServer ==
    SessionsCallRouted =>
        /\ mcp.last.res.invoked => IsMapping(mcp.last.args)
        /\ ~IsMapping(mcp.last.args) =>
              (~mcp.last.res.invoked /\ mcp.last.res.is_error)

----------------------------------------------------------------------------
(* MLXAgent.request_streaming: the rounds of generation and the tool call  *)
(* found in the generated text.                                            *)
(*                                                                         *)
(* The text of a round is a sequence of tokens: "t" is plain text, "J" a   *)
(* JSON text that names a tool, "B" a JSON text that does not parse.  The  *)
(* model yields the text of a round token by token.                        *)

MaxMlxRounds == 5

MlxTexts ==
    { <<>>, <<"t">>, <<"t", "t">>,
      <<"<tool_call>", "J", "</tool_call>">>,
      <<"t", "<tool_call>", "J", "</tool_call>">>,
      <<"<tool_call>", "B", "</tool_call>">>,
      <<"<tool_call>", "J", "</tool_call>", "<tool_call>", "J", "</tool_call>">>,
      <<"<tool_call>", "J">>,
      <<"</tool_call>", "t", "<tool_call>">> }

NoMatch == [found |-> FALSE, group |-> <<>>]

\* re.search(r"<tool_call>(.*?)</tool_call>", all_text, re.DOTALL): the
\* leftmost opening tag that has a closing tag behind it, and the text up to
\* the nearest closing tag
MatchToolCall(all_text) ==
    LET closes(i) == {j \in (i + 1)..Len(all_text) : all_text[j] = "</tool_call>"}
        opens == {i \in 1..Len(all_text) : all_text[i] = "<tool_call>" /\ closes(i) # {}}
    IN  IF opens = {} THEN NoMatch
        ELSE LET i0 == CHOOSE i \in opens : \A i2 \in opens : i <= i2
                 j0 == CHOOSE j \in closes(i0) : \A j2 \in closes(i0) : j <= j2
             IN  [found |-> TRUE, group |-> SubSeq(all_text, i0 + 1, j0 - 1)]

\* self._process_function_call(json_str): the method is async def and the
\* call is not awaited, so its value is a coroutine object and its body
\* (the parse and mcp_handler.call_tool) does not run
ProcessFunctionCall(json_str) == [kind |-> "coroutine", items |-> <<>>, arg |-> json_str]

\* list.extend(x): x must be iterable
ListExtend(lst, x) ==
    IF x.kind = "list"
    THEN [raised |-> FALSE, exc |-> "", value |-> lst \o x.items]
    ELSE [raised |-> TRUE, exc |-> "TypeError", value |-> lst]

NewMlx(mlist) ==
    [phase |-> "new", history |-> mlist, request_messages |-> <<>>, rounds |-> 0,
     plan |-> <<>>, k |-> 0, all_text |-> <<>>, out |-> <<>>,
     tool_calls |-> <<>>, coroutines |-> 0, exc |-> ""]

\* request_streaming up to the for loop (no prompt of watch_prompt_call is
\* modelled)
MlxStreamingStart ==
    /\ mlx.phase = "new"
    /\ LET body == RequestBody("mlx", mlx.history)
       IN  mlx' = IF BodyRaises(body)
                  THEN [mlx EXCEPT !.phase = "failed", !.exc = "ValueError"]
                  ELSE [mlx EXCEPT !.phase = "round", !.request_messages = body]
    /\ UNCHANGED <<agentVars, mcp, ui, fmt, loc, controller, db>>

\* the head of the for loop: apply_chat_template and the start of
\* stream_generate
MlxRoundStart ==
    /\ mlx.phase = "round"
    /\ IF mlx.rounds >= MaxMlxRounds
       THEN mlx' = [mlx EXCEPT !.phase = "done"]
       ELSE \E text \in MlxTexts :
               mlx' = [mlx EXCEPT !.phase = "generating", !.rounds = @ + 1,
                                  !.plan = text, !.k = 0, !.all_text = <<>>]
    /\ UNCHANGED <<agentVars, mcp, ui, fmt, loc, controller, db>>

\* one response of stream_generate
MlxGenerate ==
    /\ mlx.phase = "generating"
    /\ mlx.k < Len(mlx.plan)
    /\ mlx' = [mlx EXCEPT !.k = @ + 1,
                          !.all_text = Append(@, mlx.plan[mlx.k + 1]),
                          !.out = Append(@, mlx.plan[mlx.k + 1])]
    /\ UNCHANGED <<agentVars, mcp, ui, fmt, loc, controller, db>>

\* the generation of the round is exhausted: the search for a tool call
MlxRoundEnd ==
    /\ mlx.phase = "generating"
    /\ mlx.k = Len(mlx.plan)
    /\ LET match_tool == MatchToolCall(mlx.all_text)
           tool_result == ProcessFunctionCall(match_tool.group)
           extended == ListExtend(mlx.request_messages, tool_result)
       IN  mlx' = IF ~match_tool.found
                  THEN [mlx EXCEPT !.phase = "done"]
                  ELSE IF extended.raised
                  THEN [mlx EXCEPT !.phase = "failed", !.exc = extended.exc,
                                   !.coroutines = @ + 1]
                  ELSE [mlx EXCEPT !.phase = "round",
                                   !.request_messages = extended.value]
    /\ UNCHANGED <<agentVars, mcp, ui, fmt, loc, controller, db>>

InitMlx ==
    /\ agent = "none" /\ op = "none" /\ pc = "idle"
    /\ history = <<>> /\ messages = <<>> /\ final_text_parts = <<>>
    /\ call_count = 0
    /\ response = [content |-> <<>>, tool_calls |-> <<>>, finish_reason |-> "none"]
    /\ ret = NoRet /\ yielded = <<>> /\ events = <<>>
    /\ issued = 0 /\ variety = 0 /\ strm = StrmIdle
    /\ conn = 0
    /\ mcp = McpIdle /\ ui = UiIdle /\ fmt = FmtIdle /\ loc = LocIdle
    /\ controller = CtlIdle /\ db = DbIdle
    /\ mlx \in { NewMlx(mlist) : mlist \in LocalHistories }

NextMlx ==
    \/ MlxStreamingStart
    \/ MlxRoundStart
    \/ MlxGenerate
    \/ MlxRoundEnd

SpecMlx == InitMlx /\ [][NextMlx]_vars

\* the step that ends a round of generation
MlxRoundEnds ==
    mlx.phase = "generating" /\ mlx.k = Len(mlx.plan) /\ mlx' # mlx

\* C38: in MLXAgent.request_streaming, when the text of a round holds a
\* <tool_call>...</tool_call> block, the tool is called exactly once and a
\* role "tool" message with its result is appended to the message list
\* before the next round, and the stream does not end with an exception
\* (also when the JSON of the block does not parse); a round without such a
\* block ends the loop.
C38_ToolCallBlockRunsTool ==
    [][ MlxRoundEnds =>
          IF MatchToolCall(mlx.all_text).found
          THEN /\ mlx'.phase # "failed"
               /\ Len(mlx'.tool_calls) = Len(mlx.tool_calls) + 1
               /\ Len(mlx'.request_messages) = Len(mlx.request_messages) + 1
               /\ mlx'.request_messages[Len(mlx'.request_messages)].role = "tool"
          ELSE mlx'.phase = "done"
      ]_vars

C38_NoBlockEndsLoop ==
    [][ (MlxRoundEnds /\ ~MatchToolCall(mlx.all_text).found) => mlx'.phase = "done" ]_vars

----------------------------------------------------------------------------
(* Message.insert_into_db on the SQLite file, one statement at a time.     *)
(*                                                                         *)
(* Every statement runs in a connection and transaction of its own, so the *)
(* statements of two calls interleave freely.  db.procs[p] is the frame of *)
(* call p: the message it inserts, the table SQLiteDB.insert works on and  *)
(* the answer of the check it made last.                                   *)

MaxWriters == 2

Writers == 1..MaxWriters

ChatIds == {"c1", "c2"}

\* the row of a message: its id and the chat it belongs to
MessageRow(id, chat_id) == [id |-> id, chat_id |-> chat_id]

\* the row a call of SQLiteDB.insert writes into the table
RowOf(table, frame) ==
    IF table = "chat" THEN MessageRow(frame.chat_id, frame.chat_id)
    ELSE MessageRow(frame.id, frame.chat_id)

\* the stores the application starts from: a fresh file, or one that holds
\* the chat c1 with one message
InitStores ==
    { [tables |-> {}, chat |-> <<>>, message |-> <<>>],
      [tables |-> {"chat", "message"},
       chat |-> <<MessageRow("c1", "c1")>>,
       message |-> <<MessageRow(0, "c1")>>] }

Frame(id, chat_id) ==
    [pc |-> "entry_exist", id |-> id, chat_id |-> chat_id, table |-> "",
     exc |-> ""]

\* SELECT ... WHERE id = ...: a table that does not exist raises
\* OperationalError inside entry_exist, which answers False
EntryExist(store, table, id) ==
    /\ table \in store.tables
    /\ \E k \in 1..Len(store[table]) : store[table][k].id = id

\* INSERT INTO table: the id column is the PRIMARY KEY of both tables
PrimaryKeyTaken(store, table, id) ==
    \E k \in 1..Len(store[table]) : store[table][k].id = id

\* Message.insert_into_db up to the call of an insert: the check for the chat
MessageEntryExist(p) ==
    /\ db.phase = "ready"
    /\ db.procs[p].pc = "entry_exist"
    /\ db' = [db EXCEPT !.procs[p].pc = "table_exist",
                        !.procs[p].table =
                            IF EntryExist(db.store, "chat", db.procs[p].chat_id)
                            THEN "message" ELSE "chat"]
    /\ UNCHANGED <<agentVars, mcp, ui, fmt, loc, controller, mlx>>

\* SQLiteDB.insert: _table_exist
InsertTableExist(p) ==
    /\ db.phase = "ready"
    /\ db.procs[p].pc = "table_exist"
    /\ db' = [db EXCEPT !.procs[p].pc = IF db.procs[p].table \in db.store.tables
                                        THEN "insert" ELSE "create_table"]
    /\ UNCHANGED <<agentVars, mcp, ui, fmt, loc, controller, mlx>>

\* SQLiteDB.insert: _create_table; CREATE TABLE of a table that exists raises
InsertCreateTable(p) ==
    /\ db.phase = "ready"
    /\ db.procs[p].pc = "create_table"
    /\ db' = IF db.procs[p].table \in db.store.tables
             THEN [db EXCEPT !.procs[p].pc = "failed",
                             !.procs[p].exc = "OperationalError"]
             ELSE [db EXCEPT !.procs[p].pc = "insert",
                             !.store.tables = @ \cup {db.procs[p].table}]
    /\ UNCHANGED <<agentVars, mcp, ui, fmt, loc, controller, mlx>>

\* SQLiteDB.insert: the INSERT statement; after the chat row the call goes
\* on with the insert of the message
InsertExecute(p) ==
    /\ db.phase = "ready"
    /\ db.procs[p].pc = "insert"
    /\ LET table == db.procs[p].table
           row == RowOf(table, db.procs[p])
       IN  db' = IF table \notin db.store.tables
                 THEN [db EXCEPT !.procs[p].pc = "failed",
                                 !.procs[p].exc = "OperationalError"]
                 ELSE IF PrimaryKeyTaken(db.store, table, row.id)
                 THEN [db EXCEPT !.procs[p].pc = "failed",
                                 !.procs[p].exc = "IntegrityError"]
                 ELSE [db EXCEPT !.store[table] = Append(@, row),
                                 !.procs[p].pc = IF table = "chat"
                                                 THEN "table_exist" ELSE "done",
                                 !.procs[p].table = "message"]
    /\ UNCHANGED <<agentVars, mcp, ui, fmt, loc, controller, mlx>>

InitDb ==
    /\ agent = "none" /\ op = "none" /\ pc = "idle"
    /\ history = <<>> /\ messages = <<>> /\ final_text_parts = <<>>
    /\ call_count = 0
    /\ response = [content |-> <<>>, tool_calls |-> <<>>, finish_reason |-> "none"]
    /\ ret = NoRet /\ yielded = <<>> /\ events = <<>>
    /\ issued = 0 /\ variety = 0 /\ strm = StrmIdle
    /\ conn = 0
    /\ mcp = McpIdle /\ ui = UiIdle /\ fmt = FmtIdle /\ loc = LocIdle
    /\ controller = CtlIdle /\ mlx = MlxIdle
    /\ db \in { [phase |-> "ready", store |-> store,
                 procs |-> [p \in Writers |-> Frame(p, chats[p])]] :
                   store \in InitStores, chats \in [Writers -> ChatIds] }

NextDb ==
    \E p \in Writers :
       \/ MessageEntryExist(p)
       \/ InsertTableExist(p)
       \/ InsertCreateTable(p)
       \/ InsertExecute(p)

SpecDb == InitDb /\ [][NextDb]_vars

\* the chat rows with this id
ChatRows(chat_id) ==
    {k \in 1..Len(db.store.chat) : db.store.chat[k].id = chat_id}

\* C39: after any sequence of Message.insert_into_db calls, two interleaved
\* calls for the same new chat_id included, every persisted message's
\* chat_id refers to exactly one chat row, and no insert fails because the
\* check for the chat raced with the insert of the chat.
C39_OneChatRowAndNoFailedChatInsert ==
    /\ \A k \in 1..Len(db.store.message) :
          Cardinality(ChatRows(db.store.message[k].chat_id)) = 1
    /\ \A p \in Writers :
          db.procs[p].pc = "failed" => db.procs[p].table # "chat"

\* the first half alone: the messages persisted refer to one chat row each
C39_MessagesReferToOneChat ==
    \A k \in 1..Len(db.store.message) :
       Cardinality(ChatRows(db.store.message[k].chat_id)) = 1

====
